---- MODULE Spec2Model ----
(***************************************************************************)
(* The If-Elif transformer (Packs/FiltersAndTransformers/Scripts/IfElif).  *)
(* Python strings are sequences of one-character strings, so that          *)
(* templating, parsing, repr() and lower() are computed on the text.       *)
(***************************************************************************)
EXTENDS Integers, Sequences, FiniteSets, TLC

(***************************************************************************)
(* Characters.                                                             *)
(***************************************************************************)
\* the printable ASCII characters, code points 32..126, in code-point order
\* (code point 96 is written BACKTICK)
ASCII == <<" ", "!", "\"", "#", "$", "%", "&", "'", "(", ")", "*", "+", ",", "-", ".", "/", "0", "1", "2", "3", "4", "5", "6", "7", "8", "9", ":", ";", "<", "=", ">", "?", "@", "A", "B", "C", "D", "E", "F", "G", "H", "I", "J", "K", "L", "M", "N", "O", "P", "Q", "R", "S", "T", "U", "V", "W", "X", "Y", "Z", "[", "\\", "]", "^", "_", "BACKTICK", "a", "b", "c", "d", "e", "f", "g", "h", "i", "j", "k", "l", "m", "n", "o", "p", "q", "r", "s", "t", "u", "v", "w", "x", "y", "z", "{", "|", "}", "~">>

\* ord(c)
CodePoints == [c \in {ASCII[i] : i \in 1..Len(ASCII)} |-> 31 + (CHOOSE i \in 1..Len(ASCII) : ASCII[i] = c)]
Ord(c) == CodePoints[c]

IsDigit(c) == Ord(c) >= 48 /\ Ord(c) <= 57
IsUpper(c) == Ord(c) >= 65 /\ Ord(c) <= 90
IsIdStart(c) == IsUpper(c) \/ (Ord(c) >= 97 /\ Ord(c) <= 122) \/ c = "_"
IsIdChar(c) == IsIdStart(c) \/ IsDigit(c)

\* str.lower() on one character, and on a string
LowerChar(c) == IF IsUpper(c) THEN ASCII[Ord(c) + 32 - 31] ELSE c
Lower(s) == [i \in 1..Len(s) |-> LowerChar(s[i])]

\* the decimal digits of a natural number, and the number of a digit string
RECURSIVE Digits(_)
Digits(n) == IF n < 10 THEN <<ASCII[n + 17]>> ELSE Append(Digits(n \div 10), ASCII[(n % 10) + 17])
RECURSIVE Number(_)
Number(s) == IF s = <<>> THEN 0 ELSE 10 * Number(SubSeq(s, 1, Len(s) - 1)) + (Ord(s[Len(s)]) - 48)

\* s[i..] starts with the string p
StartsAt(s, i, p) == i + Len(p) - 1 <= Len(s) /\ SubSeq(s, i, i + Len(p) - 1) = p
\* str.find: the first index >= i at which p occurs in s, 0 when there is none
Find(s, i, p) ==
    LET hits == {j \in i..Len(s) : StartsAt(s, j, p)}
    IN IF hits = {} THEN 0 ELSE CHOOSE j \in hits : \A h \in hits : j <= h

(***************************************************************************)
(* Runtime values: the Python objects the evaluator produces.  Every value *)
(* is a record of one shape: k the type, n the number of an int, bool or   *)
(* float, s the characters of a str, l the items of a list, or the         *)
(* alternating keys and values of a dict in insertion order.               *)
(***************************************************************************)
PyInt(n) == [k |-> "int", n |-> n, s |-> <<>>, l |-> <<>>]
PyBool(b) == [k |-> "bool", n |-> IF b THEN 1 ELSE 0, s |-> <<>>, l |-> <<>>]
\* a float with a whole value (1.0), and the floats nan and inf
PyFloat(n) == [k |-> "float", n |-> n, s |-> <<>>, l |-> <<>>]
PyNaN == [k |-> "float", n |-> 0, s |-> <<"n", "a", "n">>, l |-> <<>>]
PyInf == [k |-> "float", n |-> 0, s |-> <<"i", "n", "f">>, l |-> <<>>]
PyStr(s) == [k |-> "str", n |-> 0, s |-> s, l |-> <<>>]
PyNone == [k |-> "None", n |-> 0, s |-> <<>>, l |-> <<>>]
PyList(l) == [k |-> "list", n |-> 0, s |-> <<>>, l |-> l]
PyDict(l) == [k |-> "dict", n |-> 0, s |-> <<>>, l |-> l]
\* an re.Match object: s the matched text, n the start of the match
PyMatch(start, s) == [k |-> "Match", n |-> start, s |-> s, l |-> <<>>]

IsNumber(v) == v.k \in {"int", "bool", "float"}
IsFinite(v) == IsNumber(v) /\ v.s = <<>>

\* bool(v)
Truthy(v) ==
    CASE v.k = "None" -> FALSE
      [] v.k \in {"int", "bool"} -> v.n # 0
      [] v.k = "float" -> v.s # <<>> \/ v.n # 0
      [] v.k = "str" -> v.s # <<>>
      [] v.k \in {"list", "dict"} -> v.l # <<>>
      [] OTHER -> TRUE

(***************************************************************************)
(* Python's operations on values.                                          *)
(***************************************************************************)
\* x == y, Python's value equality (lambda x, y: x == y)
RECURSIVE PyEq(_, _)
PyEq(x, y) ==
    CASE IsNumber(x) /\ IsNumber(y) ->
            IF x.s = <<>> /\ y.s = <<>> THEN x.n = y.n
            ELSE x.s = y.s /\ x.s # <<"n", "a", "n">>
      [] x.k = "str" /\ y.k = "str" -> x.s = y.s
      [] x.k = "None" /\ y.k = "None" -> TRUE
      [] x.k = "list" /\ y.k = "list" ->
            Len(x.l) = Len(y.l) /\ \A i \in 1..Len(x.l) : PyEq(x.l[i], y.l[i])
      [] x.k = "dict" /\ y.k = "dict" ->
            /\ Len(x.l) = Len(y.l)
            /\ \A i \in 1..(Len(x.l) \div 2) : \E j \in 1..(Len(y.l) \div 2) :
                   PyEq(x.l[2 * i - 1], y.l[2 * j - 1]) /\ PyEq(x.l[2 * i], y.l[2 * j])
      [] OTHER -> FALSE

\* a < b on strings, by code point
RECURSIVE StrLt(_, _)
StrLt(a, b) ==
    IF b = <<>> THEN FALSE
    ELSE IF a = <<>> THEN TRUE
    ELSE IF a[1] = b[1] THEN StrLt(Tail(a), Tail(b))
    ELSE Ord(a[1]) < Ord(b[1])

\* a < b on numbers (nan is unordered, -inf the least and inf the largest)
NumLt(x, y) ==
    IF x.s = <<"n", "a", "n">> \/ y.s = <<"n", "a", "n">> THEN FALSE
    ELSE IF x.s = <<"-", "i", "n", "f">> THEN y.s # x.s
    ELSE IF x.s = <<"i", "n", "f">> THEN FALSE
    ELSE IF y.s # <<>> THEN y.s = <<"i", "n", "f">>
    ELSE x.n < y.n

\* the outcome of applying an operator: a value, or the exception raised
Return(v) == [ok |-> TRUE, val |-> v, err |-> "", log |-> <<>>]
Raise(e) == [ok |-> FALSE, val |-> PyNone, err |-> e, log |-> <<>>]

\* x < y (strict = TRUE) or x <= y (strict = FALSE); TypeError between
\* operands Python does not order
RECURSIVE PyLess(_, _, _)
PyLess(x, y, strict) ==
    CASE IsNumber(x) /\ IsNumber(y) ->
            Return(PyBool(NumLt(x, y) \/ (~strict /\ PyEq(x, y))))
      [] x.k = "str" /\ y.k = "str" ->
            Return(PyBool(StrLt(x.s, y.s) \/ (~strict /\ x.s = y.s)))
      [] x.k = "list" /\ y.k = "list" ->
            LET diff == {i \in 1..Len(x.l) : i <= Len(y.l) /\ ~PyEq(x.l[i], y.l[i])}
            IN IF diff = {}
               THEN Return(PyBool(IF strict THEN Len(x.l) < Len(y.l) ELSE Len(x.l) <= Len(y.l)))
               ELSE LET i == CHOOSE i \in diff : \A j \in diff : i <= j
                    IN PyLess(x.l[i], y.l[i], strict)
      [] OTHER -> Raise("TypeError")

\* a value that can be a dict key or be looked up in a dict
Hashable(v) == v.k \notin {"list", "dict"}

\* x in y (lambda x, y: x in y)
PyIn(x, y) ==
    CASE y.k = "list" -> Return(PyBool(\E i \in 1..Len(y.l) : PyEq(x, y.l[i])))
      [] y.k = "str" ->
            IF x.k = "str" THEN Return(PyBool(x.s = <<>> \/ Find(y.s, 1, x.s) # 0))
            ELSE Raise("TypeError")
      [] y.k = "dict" ->
            IF Hashable(x)
            THEN Return(PyBool(\E i \in 1..(Len(y.l) \div 2) : PyEq(x, y.l[2 * i - 1])))
            ELSE Raise("TypeError")
      [] OTHER -> Raise("TypeError")

\* ", ".join(parts)
RECURSIVE Join(_)
Join(parts) ==
    IF parts = <<>> THEN <<>>
    ELSE IF Len(parts) = 1 THEN parts[1]
    ELSE parts[1] \o <<",", " ">> \o Join(Tail(parts))

\* the body of a str's repr: backslashes and the quote character escaped
RECURSIVE Escape(_, _)
Escape(s, quote) ==
    IF s = <<>> THEN <<>>
    ELSE (IF s[1] = "\\" \/ s[1] = quote THEN <<"\\", s[1]>> ELSE <<s[1]>>)
         \o Escape(Tail(s), quote)

\* repr(n) of an integer
ReprInt(n) == IF n < 0 THEN <<"-">> \o Digits(0 - n) ELSE Digits(n)

\* repr(v), Python's printed representation
RECURSIVE Repr(_)
Repr(v) ==
    CASE v.k = "int" -> ReprInt(v.n)
      [] v.k = "bool" -> IF v.n = 1 THEN <<"T", "r", "u", "e">> ELSE <<"F", "a", "l", "s", "e">>
      [] v.k = "float" -> IF v.s # <<>> THEN v.s ELSE ReprInt(v.n) \o <<".", "0">>
      [] v.k = "None" -> <<"N", "o", "n", "e">>
      [] v.k = "str" ->
            LET quote == IF (\E i \in 1..Len(v.s) : v.s[i] = "'")
                            /\ ~(\E i \in 1..Len(v.s) : v.s[i] = "\"")
                         THEN "\"" ELSE "'"
            IN <<quote>> \o Escape(v.s, quote) \o <<quote>>
      [] v.k = "list" -> <<"[">> \o Join([i \in 1..Len(v.l) |-> Repr(v.l[i])]) \o <<"]">>
      [] v.k = "dict" ->
            <<"{">> \o Join([i \in 1..(Len(v.l) \div 2) |->
                              Repr(v.l[2 * i - 1]) \o <<":", " ">> \o Repr(v.l[2 * i])])
            \o <<"}">>
      [] OTHER ->
            <<"<", "r", "e", ".", "M", "a", "t", "c", "h", " ", "o", "b", "j", "e", "c", "t",
              ";", " ", "s", "p", "a", "n", "=", "(">> \o ReprInt(v.n) \o <<",", " ">>
            \o ReprInt(v.n + Len(v.s)) \o <<")", ",", " ", "m", "a", "t", "c", "h", "=">>
            \o Repr(PyStr(v.s)) \o <<">">>

(***************************************************************************)
(* ast.parse(expression, mode='eval'): the tokens of the text, then the    *)
(* tree of the grammar of Python expressions, restricted to one line of    *)
(* printable ASCII without string escapes, lambda, conditional             *)
(* expressions, comprehensions, subscripts and the arithmetic operators    *)
(* other than + and -.                                                     *)
(***************************************************************************)
Token(t, s) == [t |-> t, s |-> s]

\* the index after the last character of the identifier or number at i
RECURSIVE ScanId(_, _)
ScanId(text, i) == IF i <= Len(text) /\ IsIdChar(text[i]) THEN ScanId(text, i + 1) ELSE i
RECURSIVE ScanDigits(_, _)
ScanDigits(text, i) == IF i <= Len(text) /\ IsDigit(text[i]) THEN ScanDigits(text, i + 1) ELSE i

TwoCharOps == {<<"=", "=">>, <<"!", "=">>, <<"<", "=">>, <<">", "=">>}
OneCharOps == {"<", ">", "(", ")", "[", "]", "{", "}", ",", ":", "-", "+", ".", "="}

\* the tokens of text from index i on; a "bad" token where Python's
\* tokenizer fails; a # outside a string starts a comment
RECURSIVE Tokenize(_, _)
Tokenize(text, i) ==
    IF i > Len(text) THEN <<>>
    ELSE LET c == text[i] IN
    CASE c = " " -> Tokenize(text, i + 1)
      [] c = "#" -> <<>>
      [] IsIdStart(c) ->
            LET j == ScanId(text, i)
            IN <<Token("name", SubSeq(text, i, j - 1))>> \o Tokenize(text, j)
      [] IsDigit(c) ->
            LET j == ScanDigits(text, i) IN
            IF j <= Len(text) /\ text[j] = "."
            THEN LET m == ScanDigits(text, j + 1)
                 IN IF m <= Len(text) /\ IsIdStart(text[m])
                    THEN <<Token("bad", <<>>)>>
                    ELSE <<Token("float", SubSeq(text, i, m - 1))>> \o Tokenize(text, m)
            ELSE IF j <= Len(text) /\ IsIdStart(text[j])
            THEN <<Token("bad", <<>>)>>
            ELSE <<Token("int", SubSeq(text, i, j - 1))>> \o Tokenize(text, j)
      [] c = "'" \/ c = "\"" ->
            LET j == Find(text, i + 1, <<c>>)
            IN IF j = 0 THEN <<Token("bad", <<>>)>>
               ELSE <<Token("str", SubSeq(text, i + 1, j - 1))>> \o Tokenize(text, j + 1)
      [] i < Len(text) /\ <<c, text[i + 1]>> \in TwoCharOps ->
            <<Token("op", <<c, text[i + 1]>>)>> \o Tokenize(text, i + 2)
      [] c \in OneCharOps -> <<Token("op", <<c>>)>> \o Tokenize(text, i + 1)
      [] OTHER -> <<Token("bad", <<>>)>>

\* the nodes of the tree, named as in Python's ast module
Constant(value) == [type |-> "Constant", value |-> value]
List(elts) == [type |-> "List", elts |-> elts]
Tuple(elts) == [type |-> "Tuple", elts |-> elts]
Dict(keys, values) == [type |-> "Dict", keys |-> keys, values |-> values]
Name(id) == [type |-> "Name", id |-> id]
Attribute(value, attr) == [type |-> "Attribute", value |-> value, attr |-> attr]
Call(func, args, keywords) == [type |-> "Call", func |-> func, args |-> args, keywords |-> keywords]
Compare(left, ops, comparators) ==
    [type |-> "Compare", left |-> left, ops |-> ops, comparators |-> comparators]
BoolOp(op, values) == [type |-> "BoolOp", op |-> op, values |-> values]
UnaryOp(op, operand) == [type |-> "UnaryOp", op |-> op, operand |-> operand]
BinOp(left, op, right) == [type |-> "BinOp", left |-> left, op |-> op, right |-> right]

\* the outcome of parsing from token p: a node and the next token, or failure
Parsed(node, p) == [ok |-> TRUE, node |-> node, p |-> p]
NoParse == [ok |-> FALSE, node |-> [type |-> "NoParse"], p |-> 0]

Peek(toks, p) == IF p <= Len(toks) THEN toks[p] ELSE Token("end", <<>>)
IsOp(tok, s) == tok.t = "op" /\ tok.s = s
IsKw(tok, s) == tok.t = "name" /\ tok.s = s

\* the reserved words that cannot be names
Reserved == {<<"a", "n", "d">>, <<"o", "r">>, <<"n", "o", "t">>, <<"i", "n">>, <<"i", "s">>, <<"i", "f">>, <<"e", "l", "s", "e">>,
             <<"e", "l", "i", "f">>, <<"f", "o", "r">>, <<"l", "a", "m", "b", "d", "a">>, <<"w", "h", "i", "l", "e">>, <<"d", "e", "f">>, <<"d", "e", "l">>,
             <<"f", "r", "o", "m">>, <<"i", "m", "p", "o", "r", "t">>, <<"r", "e", "t", "u", "r", "n">>, <<"y", "i", "e", "l", "d">>, <<"a", "s">>, <<"w", "i", "t", "h">>,
             <<"t", "r", "y">>, <<"e", "x", "c", "e", "p", "t">>, <<"r", "a", "i", "s", "e">>, <<"p", "a", "s", "s">>, <<"c", "l", "a", "s", "s">>, <<"a", "w", "a", "i", "t">>,
             <<"a", "s", "y", "n", "c">>, <<"g", "l", "o", "b", "a", "l">>, <<"a", "s", "s", "e", "r", "t">>, <<"b", "r", "e", "a", "k">>, <<"c", "o", "n", "t", "i", "n", "u", "e">>,
             <<"f", "i", "n", "a", "l", "l", "y">>, <<"n", "o", "n", "l", "o", "c", "a", "l">>}

\* the comparison operator at token p: its ast class and how many tokens it
\* takes, n = 0 when there is none
CompOpAt(toks, p) ==
    LET t == Peek(toks, p)
        u == Peek(toks, p + 1)
    IN CASE IsOp(t, <<"=", "=">>) -> [op |-> "Eq", n |-> 1]
         [] IsOp(t, <<"!", "=">>) -> [op |-> "NotEq", n |-> 1]
         [] IsOp(t, <<"<">>) -> [op |-> "Lt", n |-> 1]
         [] IsOp(t, <<"<", "=">>) -> [op |-> "LtE", n |-> 1]
         [] IsOp(t, <<">">>) -> [op |-> "Gt", n |-> 1]
         [] IsOp(t, <<">", "=">>) -> [op |-> "GtE", n |-> 1]
         [] IsKw(t, <<"i", "n">>) -> [op |-> "In", n |-> 1]
         [] IsKw(t, <<"n", "o", "t">>) /\ IsKw(u, <<"i", "n">>) -> [op |-> "NotIn", n |-> 2]
         [] IsKw(t, <<"i", "s">>) /\ IsKw(u, <<"n", "o", "t">>) -> [op |-> "IsNot", n |-> 2]
         [] IsKw(t, <<"i", "s">>) -> [op |-> "Is", n |-> 1]
         [] OTHER -> [op |-> "", n |-> 0]

\* the value of a float literal: floats are modelled with a zero fraction
FloatLiteral(s) ==
    LET dot == Find(s, 1, <<".">>) IN PyFloat(Number(SubSeq(s, 1, dot - 1)))
WholeFloat(s) ==
    LET dot == Find(s, 1, <<".">>) IN \A i \in (dot + 1)..Len(s) : s[i] = "0"

RECURSIVE Parse(_, _, _, _)
\* the rule of the grammar applied at token p; ctx holds what the rule has
\* collected so far
Parse(rule, toks, p, ctx) ==
    CASE
      \* or_test: and_test ('or' and_test)*
         rule = "test" ->
            LET a == Parse("and", toks, p, <<>>)
            IN IF a.ok /\ IsKw(Peek(toks, a.p), <<"o", "r">>) THEN Parse("or_rest", toks, a.p, <<a.node>>) ELSE a
      [] rule = "or_rest" ->
        LET acc == ctx IN
            LET b == Parse("and", toks, p + 1, <<>>)
            IN IF ~b.ok THEN b
               ELSE IF IsKw(Peek(toks, b.p), <<"o", "r">>) THEN Parse("or_rest", toks, b.p, Append(acc, b.node))
               ELSE Parsed(BoolOp("Or", Append(acc, b.node)), b.p)
      \* and_test: not_test ('and' not_test)*
      [] rule = "and" ->
            LET a == Parse("not", toks, p, <<>>)
            IN IF a.ok /\ IsKw(Peek(toks, a.p), <<"a", "n", "d">>) THEN Parse("and_rest", toks, a.p, <<a.node>>) ELSE a
      [] rule = "and_rest" ->
        LET acc == ctx IN
            LET b == Parse("not", toks, p + 1, <<>>)
            IN IF ~b.ok THEN b
               ELSE IF IsKw(Peek(toks, b.p), <<"a", "n", "d">>) THEN Parse("and_rest", toks, b.p, Append(acc, b.node))
               ELSE Parsed(BoolOp("And", Append(acc, b.node)), b.p)
      \* not_test: 'not' not_test | comparison
      [] rule = "not" ->
            IF IsKw(Peek(toks, p), <<"n", "o", "t">>)
            THEN LET a == Parse("not", toks, p + 1, <<>>)
                 IN IF a.ok THEN Parsed(UnaryOp("Not", a.node), a.p) ELSE a
            ELSE Parse("comparison", toks, p, <<>>)
      \* comparison: arith (comp_op arith)*
      [] rule = "comparison" ->
            LET a == Parse("arith", toks, p, <<>>)
            IN IF a.ok /\ CompOpAt(toks, a.p).n > 0 THEN Parse("comp_rest", toks, a.p, [left |-> a.node, ops |-> <<>>, comparators |-> <<>>]) ELSE a
      [] rule = "comp_rest" ->
        LET left == ctx.left  ops == ctx.ops  comparators == ctx.comparators IN
            LET o == CompOpAt(toks, p)
                b == Parse("arith", toks, p + o.n, <<>>)
            IN IF ~b.ok THEN b
               ELSE IF CompOpAt(toks, b.p).n > 0
               THEN Parse("comp_rest", toks, b.p,
                          [left |-> left, ops |-> Append(ops, o.op),
                           comparators |-> Append(comparators, b.node)])
               ELSE Parsed(Compare(left, Append(ops, o.op), Append(comparators, b.node)), b.p)
      \* arith: factor (('+' | '-') factor)*, left-associative
      [] rule = "arith" ->
            LET a == Parse("factor", toks, p, <<>>) IN IF a.ok THEN Parse("arith_rest", toks, a.p, a.node) ELSE a
      [] rule = "arith_rest" ->
        LET left == ctx IN
            LET t == Peek(toks, p) IN
            IF IsOp(t, <<"+">>) \/ IsOp(t, <<"-">>)
            THEN LET b == Parse("factor", toks, p + 1, <<>>)
                 IN IF ~b.ok THEN b
                    ELSE Parse("arith_rest", toks, b.p,
                               BinOp(left, IF IsOp(t, <<"+">>) THEN "Add" ELSE "Sub", b.node))
            ELSE Parsed(left, p)
      \* factor: ('+' | '-') factor | primary
      [] rule = "factor" ->
            LET t == Peek(toks, p) IN
            IF IsOp(t, <<"+">>) \/ IsOp(t, <<"-">>)
            THEN LET a == Parse("factor", toks, p + 1, <<>>)
                 IN IF a.ok
                    THEN Parsed(UnaryOp(IF IsOp(t, <<"-">>) THEN "USub" ELSE "UAdd", a.node), a.p)
                    ELSE a
            ELSE Parse("primary", toks, p, <<>>)
      \* primary: atom ('(' arglist ')' | '.' NAME)*
      [] rule = "primary" ->
            LET a == Parse("atom", toks, p, <<>>) IN IF a.ok THEN Parse("trailers", toks, a.p, a.node) ELSE a
      [] rule = "trailers" ->
        LET node == ctx IN
            LET t == Peek(toks, p)
                u == Peek(toks, p + 1)
            IN CASE IsOp(t, <<"(">>) ->
                      LET r == Parse("args", toks, p + 1, [args |-> <<>>, keywords |-> <<>>])
                      IN IF r.ok
                         THEN Parse("trailers", toks, r.p, Call(node, r.node.args, r.node.keywords))
                         ELSE r
                 [] IsOp(t, <<".">>) ->
                      IF u.t = "name" /\ u.s \notin Reserved
                      THEN Parse("trailers", toks, p + 2, Attribute(node, u.s))
                      ELSE NoParse
                 [] OTHER -> Parsed(node, p)
      \* arglist up to ')': positional arguments, then NAME '=' test keyword arguments
      [] rule = "args" ->
        LET args == ctx.args  keywords == ctx.keywords IN
            LET t == Peek(toks, p)
                u == Peek(toks, p + 1)
            IN IF IsOp(t, <<")">>) THEN Parsed([args |-> args, keywords |-> keywords], p + 1)
               ELSE LET kw == t.t = "name" /\ IsOp(u, <<"=">>)
                        a == Parse("test", toks, IF kw THEN p + 2 ELSE p, <<>>)
                        v == Peek(toks, a.p)
                    IN IF ~a.ok \/ (~kw /\ keywords # <<>>) \/ (kw /\ t.s \in Reserved) THEN NoParse
                       ELSE LET args2 == IF kw THEN args ELSE Append(args, a.node)
                                keywords2 == IF kw THEN Append(keywords, [arg |-> t.s, value |-> a.node])
                                             ELSE keywords
                            IN IF IsOp(v, <<",">>) THEN Parse("args", toks, a.p + 1, [args |-> args2, keywords |-> keywords2])
                               ELSE IF IsOp(v, <<")">>)
                               THEN Parsed([args |-> args2, keywords |-> keywords2], a.p + 1)
                               ELSE NoParse
      \* the items of a list or tuple display up to the closing bracket
      [] rule = "elts" ->
        LET close == ctx.close  acc == ctx.acc IN
            IF IsOp(Peek(toks, p), close) THEN Parsed(acc, p + 1)
            ELSE LET a == Parse("test", toks, p, <<>>)
                     v == Peek(toks, a.p)
                 IN IF ~a.ok THEN NoParse
                    ELSE IF IsOp(v, <<",">>) THEN Parse("elts", toks, a.p + 1, [close |-> close, acc |-> Append(acc, a.node)])
                    ELSE IF IsOp(v, close) THEN Parsed(Append(acc, a.node), a.p + 1)
                    ELSE NoParse
      \* the key: value pairs of a dict display up to '}'
      [] rule = "pairs" ->
        LET keys == ctx.keys  values == ctx.values IN
            IF IsOp(Peek(toks, p), <<"}">>) THEN Parsed(Dict(keys, values), p + 1)
            ELSE LET a == Parse("test", toks, p, <<>>) IN
                 IF ~a.ok \/ ~IsOp(Peek(toks, a.p), <<":">>) THEN NoParse
                 ELSE LET b == Parse("test", toks, a.p + 1, <<>>)
                          v == Peek(toks, b.p)
                      IN IF ~b.ok THEN NoParse
                         ELSE IF IsOp(v, <<",">>)
                         THEN Parse("pairs", toks, b.p + 1,
                                    [keys |-> Append(keys, a.node), values |-> Append(values, b.node)])
                         ELSE IF IsOp(v, <<"}">>)
                         THEN Parsed(Dict(Append(keys, a.node), Append(values, b.node)), b.p + 1)
                         ELSE NoParse
      \* atom: NUMBER | STRING | True | False | None | NAME | '[' ... ']' | '{' ... '}'
      \*       | '(' test ')' | '(' test ',' ... ')' | '(' ')'
      [] rule = "atom" ->
            LET t == Peek(toks, p) IN
            CASE t.t = "int" -> Parsed(Constant(PyInt(Number(t.s))), p + 1)
              [] t.t = "float" ->
                    IF WholeFloat(t.s) THEN Parsed(Constant(FloatLiteral(t.s)), p + 1) ELSE NoParse
              [] t.t = "str" -> Parsed(Constant(PyStr(t.s)), p + 1)
              [] t.t = "name" ->
                    CASE t.s = <<"T", "r", "u", "e">> -> Parsed(Constant(PyBool(TRUE)), p + 1)
                      [] t.s = <<"F", "a", "l", "s", "e">> -> Parsed(Constant(PyBool(FALSE)), p + 1)
                      [] t.s = <<"N", "o", "n", "e">> -> Parsed(Constant(PyNone), p + 1)
                      [] t.s \in Reserved -> NoParse
                      [] OTHER -> Parsed(Name(t.s), p + 1)
              [] IsOp(t, <<"[">>) ->
                    LET r == Parse("elts", toks, p + 1, [close |-> <<"]">>, acc |-> <<>>])
                    IN IF r.ok THEN Parsed(List(r.node), r.p) ELSE r
              [] IsOp(t, <<"{">>) -> Parse("pairs", toks, p + 1, [keys |-> <<>>, values |-> <<>>])
              [] IsOp(t, <<"(">>) ->
                    IF IsOp(Peek(toks, p + 1), <<")">>) THEN Parsed(Tuple(<<>>), p + 2)
                    ELSE LET a == Parse("test", toks, p + 1, <<>>) IN
                         IF ~a.ok THEN NoParse
                         ELSE IF IsOp(Peek(toks, a.p), <<")">>) THEN Parsed(a.node, a.p + 1)
                         ELSE IF IsOp(Peek(toks, a.p), <<",">>)
                         THEN LET r == Parse("elts", toks, a.p + 1, [close |-> <<")">>, acc |-> <<a.node>>])
                              IN IF r.ok THEN Parsed(Tuple(r.node), r.p) ELSE r
                         ELSE NoParse
              [] OTHER -> NoParse

\* ast.parse(expression, mode='eval').body, or failure (SyntaxError): toks
\* the tokens of the text and r the outcome of the grammar's first rule
ast_parse_tokens(toks, r) ==
    IF toks = <<>> \/ (\E i \in 1..Len(toks) : toks[i].t = "bad") THEN NoParse
    ELSE IF r.ok /\ r.p = Len(toks) + 1 THEN r
    ELSE NoParse
ast_parse(expression) ==
    ast_parse_tokens(Tokenize(expression, 1), Parse("test", Tokenize(expression, 1), 1, <<>>))

(***************************************************************************)
(* The evaluator.                                                          *)
(***************************************************************************)
\* the functions held by the operator table: the lambdas of the class body,
\* named by the ast class they are entered under, and the two functions
\* handle_flags defines, eq and the lambda not eq(x, y)
apply2(f, x, y) ==
    CASE f = "Eq" -> Return(PyBool(PyEq(x, y)))
      [] f = "NotEq" -> Return(PyBool(~PyEq(x, y)))
      [] f = "Lt" -> PyLess(x, y, TRUE)
      [] f = "LtE" -> PyLess(x, y, FALSE)
      [] f = "Gt" -> PyLess(y, x, TRUE)
      [] f = "GtE" -> PyLess(y, x, FALSE)
      [] f = "In" -> PyIn(x, y)
      [] f = "NotIn" ->
            LET r == PyIn(x, y) IN IF r.ok THEN Return(PyBool(~Truthy(r.val))) ELSE r
      [] f = "And" -> Return(IF Truthy(x) THEN y ELSE x)
      [] f = "Or" -> Return(IF Truthy(x) THEN x ELSE y)
      [] f = "eq" -> Return(PyBool(Lower(Repr(x)) = Lower(Repr(y))))
      [] f = "not eq" -> Return(PyBool(~(Lower(Repr(x)) = Lower(Repr(y)))))
      [] OTHER -> Raise("TypeError")

apply1(f, x) ==
    CASE f = "Not" -> Return(PyBool(~Truthy(x)))
      [] f = "USub" ->
            CASE x.k \in {"int", "bool"} -> Return(PyInt(0 - x.n))
              [] x.k = "float" ->
                    CASE x.s = <<>> -> Return(PyFloat(0 - x.n))
                      [] x.s = <<"i", "n", "f">> -> Return([x EXCEPT !.s = <<"-", "i", "n", "f">>])
                      [] x.s = <<"-", "i", "n", "f">> -> Return(PyInf)
                      [] OTHER -> Return(x)
              [] OTHER -> Raise("TypeError")
      [] OTHER -> Raise("TypeError")

\* the class attribute IfElif.operator_functions as the class body leaves it
operator_functions_class ==
    [op \in {"Eq", "NotEq", "Lt", "LtE", "Gt", "GtE", "In", "NotIn", "And", "Or", "Not", "USub"}
        |-> op]

\* json.loads(node.id) of an identifier
json_loads(id) ==
    CASE id = <<"t", "r", "u", "e">> -> Return(PyBool(TRUE))
      [] id = <<"f", "a", "l", "s", "e">> -> Return(PyBool(FALSE))
      [] id = <<"n", "u", "l", "l">> -> Return(PyNone)
      [] id = <<"N", "a", "N">> -> Return(PyNaN)
      [] id = <<"I", "n", "f", "i", "n", "i", "t", "y">> -> Return(PyInf)
      [] OTHER -> Raise("JSONDecodeError")

\* the pattern (letters, digits, spaces and the wildcard .) matches string
\* at offset pos
MatchesAt(pattern, string, pos, flags) ==
    /\ pos + Len(pattern) <= Len(string)
    /\ \A i \in 1..Len(pattern) :
          \/ pattern[i] = "."
          \/ pattern[i] = string[pos + i]
          \/ (flags \div 2) % 2 = 1 /\ LowerChar(pattern[i]) = LowerChar(string[pos + i])

\* partial(re.fullmatch or re.search, flags=self.regex_flags)(*args)
regex_match(f, args) ==
    IF Len(args) # 2 THEN Raise("TypeError")
    ELSE IF args[1].k # "str" \/ args[2].k # "str" THEN Raise("TypeError")
    ELSE LET pattern == args[1].s
             string == args[2].s
             hits == {pos \in 0..Len(string) :
                         /\ MatchesAt(pattern, string, pos, f.flags)
                         /\ f.fn = "fullmatch" => (pos = 0 /\ Len(pattern) = Len(string))}
         IN IF hits = {} THEN Return(PyNone)
            ELSE LET pos == CHOOSE h \in hits : \A g \in hits : h <= g
                 IN Return(PyMatch(pos, SubSeq(string, pos + 1, pos + Len(pattern))))

\* dict[key] = value: the value of an equal key is replaced, a new key is added
dict_set(l, key, value) ==
    IF \E i \in 1..(Len(l) \div 2) : PyEq(l[2 * i - 1], key)
    THEN [j \in 1..Len(l) |->
              IF j % 2 = 0 /\ PyEq(l[j - 1], key) THEN value ELSE l[j]]
    ELSE l \o <<key, value>>

\* an outcome with the log of the leaves evaluated on the way put in front
WithLog(log, r) == [r EXCEPT !.log = log \o r.log]

\* the logs of the first n outcomes of rs, one after the other
RECURSIVE Logs(_, _)
Logs(rs, n) == IF n = 0 THEN <<>> ELSE Logs(rs, n - 1) \o rs[n].log

\* the least member of a non-empty set of numbers
Least(S) == CHOOSE i \in S : \A j \in S : i <= j

\* the index of the first outcome of rs that is an exception, Len(rs) + 1
\* when there is none: an iteration over rs ends there
FirstRaise(rs) == Least({i \in 1..Len(rs) : ~rs[i].ok} \cup {Len(rs) + 1})

\* functools.reduce(function, [value] + rest): value the result so far
RECURSIVE reduce(_, _, _)
reduce_rest(function, r, rest) == IF r.ok THEN reduce(function, r.val, Tail(rest)) ELSE r
reduce(function, value, rest) ==
    IF rest = <<>> THEN Return(value)
    ELSE reduce_rest(function, apply2(function, value, rest[1]), rest)

\* the dict of the first n key and value outcomes
RECURSIVE dict_of(_, _, _)
dict_of(keys, values, n) ==
    IF n = 0 THEN <<>> ELSE dict_set(dict_of(keys, values, n - 1), keys[n].val, values[n].val)

\* a list whose elements are evaluated when they are used: an element that
\* raises is None in the list
list_value_lazy(items, k) ==
    WithLog(Logs(items, Len(items)),
            Return(PyList([i \in 1..Len(items) |-> IF items[i].ok THEN items[i].val ELSE PyNone])))

\* [self.get_value(item) for item in node.elts], items the outcomes of the
\* elements: the comprehension ends at the first exception, at index k
list_value(items, k) ==
    IF k > Len(items)
    THEN WithLog(Logs(items, Len(items)), Return(PyList([i \in 1..Len(items) |-> items[i].val])))
    ELSE WithLog(Logs(items, k - 1), items[k])

\* {self.get_value(key): self.get_value(value) for key, value in zip(...)}:
\* pairs holds the outcomes key 1, value 1, key 2, ...; the comprehension
\* ends at the first exception, or at the first key that cannot be hashed
dict_value(keys, values, stop) ==
    LET n == Len(keys)
        pairs == [i \in 1..(2 * n) |-> IF i % 2 = 1 THEN keys[(i + 1) \div 2] ELSE values[i \div 2]]
        k == Least(stop \cup {n + 1})
    IN IF k > n THEN WithLog(Logs(pairs, 2 * n), Return(PyDict(dict_of(keys, values, n))))
       ELSE IF ~keys[k].ok THEN WithLog(Logs(pairs, 2 * k - 2), keys[k])
       ELSE IF ~values[k].ok THEN WithLog(Logs(pairs, 2 * k - 1), values[k])
       ELSE WithLog(Logs(pairs, 2 * k), Raise("TypeError"))

\* self.functions[node.func.id](*map(self.get_value, node.args)), args the
\* outcomes of the arguments: the call is made when none is an exception
call_value(f, id, args, k) ==
    IF k > Len(args)
    THEN WithLog(<<id>> \o Logs(args, Len(args)), regex_match(f, [i \in 1..Len(args) |-> args[i].val]))
    ELSE WithLog(<<id>> \o Logs(args, k - 1), args[k])

\* every link compared with the leftmost operand
link_left_first(left, operands, i) == left.val

\* the left argument of link i of a comparison: the value of the operand
\* before it, left := self.get_value(right)
link_left(left, operands, i) == IF i = 1 THEN left.val ELSE operands[i - 1].val

\* operands the operator cannot take compared as unequal and unordered: the
\* TypeError of the operator becomes False
link_value_coerced(table, op, x, y) ==
    IF op \notin DOMAIN table THEN Raise("KeyError")
    ELSE IF apply2(table[op], x, y).err = "TypeError" THEN Return(PyBool(FALSE))
    ELSE apply2(table[op], x, y)

\* link i of a comparison: operator_functions[type(op)](left, right), with
\* the KeyError of an operator that is not in the table
link_value(table, op, x, y) ==
    IF op \in DOMAIN table THEN apply2(table[op], x, y) ELSE Raise("KeyError")

\* the left operand evaluated once more for the first link
compare_value_again(ops, table, left, operands, links, k) ==
    WithLog(left.log,
        (IF ~left.ok THEN left
            ELSE IF k > Len(ops) THEN WithLog(left.log \o Logs(operands, Len(ops)), Return(PyBool(TRUE)))
            ELSE IF ops[k] \notin DOMAIN table THEN WithLog(left.log \o Logs(operands, k - 1), links[k])
            ELSE IF ~operands[k].ok THEN WithLog(left.log \o Logs(operands, k - 1), operands[k])
            ELSE IF ~links[k].ok THEN WithLog(left.log \o Logs(operands, k), links[k])
            ELSE WithLog(left.log \o Logs(operands, k), Return(PyBool(FALSE)))))

\* a comparison that holds has the value of its last operand
compare_value_operand(ops, table, left, operands, links, k) ==
    IF ~left.ok THEN left
    ELSE IF k > Len(ops) THEN WithLog(left.log \o Logs(operands, Len(ops)), Return(operands[Len(ops)].val))
    ELSE IF ops[k] \notin DOMAIN table THEN WithLog(left.log \o Logs(operands, k - 1), links[k])
    ELSE IF ~operands[k].ok THEN WithLog(left.log \o Logs(operands, k - 1), operands[k])
    ELSE IF ~links[k].ok THEN WithLog(left.log \o Logs(operands, k), links[k])
    ELSE WithLog(left.log \o Logs(operands, k), Return(PyBool(FALSE)))

\* all(...) over the links of a comparison: left the outcome of node.left,
\* operands the outcomes of the comparators and links those of the links.
\* The generator looks the operator up, evaluates the operand and applies
\* the operator; all() leaves it at the first falsy link, at index k.
compare_value(ops, table, left, operands, links, k) ==
    IF ~left.ok THEN left
    ELSE IF k > Len(ops) THEN WithLog(left.log \o Logs(operands, Len(ops)), Return(PyBool(TRUE)))
    ELSE IF ops[k] \notin DOMAIN table THEN WithLog(left.log \o Logs(operands, k - 1), links[k])
    ELSE IF ~operands[k].ok THEN WithLog(left.log \o Logs(operands, k - 1), operands[k])
    ELSE IF ~links[k].ok THEN WithLog(left.log \o Logs(operands, k), links[k])
    ELSE WithLog(left.log \o Logs(operands, k), Return(PyBool(FALSE)))

\* reduce(function, map(self.get_value, node.values)), values the outcomes
\* of the operands: reduce takes the operands from the map one by one, up to
\* the first exception, at index k
bool_reduced(values, k, r) ==
    IF ~r.ok THEN WithLog(Logs(values, k - 1), r)
    ELSE IF k <= Len(values) THEN WithLog(Logs(values, k - 1), values[k])
    ELSE WithLog(Logs(values, k - 1), r)

\* the operators and / or taken to yield the truth value of their result
bool_value_canonical(function, values, k) ==
    LET r == IF k = 1 THEN values[1]
             ELSE bool_reduced(values, k, reduce(function, values[1].val, [i \in 1..(k - 2) |-> values[i + 1].val]))
    IN IF r.ok THEN [r EXCEPT !.val = PyBool(Truthy(r.val))] ELSE r

\* the BoolOp case of get_value, k the index of the first operand that raises
bool_value(function, values, k) ==
    IF k = 1 THEN values[1]
    ELSE bool_reduced(values, k, reduce(function, values[1].val, [i \in 1..(k - 2) |-> values[i + 1].val]))

\* an operand the operator cannot take passed through as it is
unary_value_lenient(function, operand) ==
    IF ~operand.ok THEN operand
    ELSE IF apply1(function, operand.val).ok THEN WithLog(operand.log, apply1(function, operand.val))
    ELSE WithLog(operand.log, Return(operand.val))

\* operator_functions[type(node.op)](self.get_value(node.operand))
unary_value(function, operand) ==
    IF operand.ok THEN WithLog(operand.log, apply1(function, operand.val)) ELSE operand

\* IfElif.get_value.  self holds the tables the evaluation reads,
\* self.operator_functions and self.functions.  The log lists, in order, the
\* leaves evaluated: the repr of each Constant, the id of each Name and of
\* each Call.  An iteration over sub-expressions is given by the outcomes of
\* all of them and the index at which the code leaves the iteration; the log
\* holds the sub-expressions evaluated up to there.
RECURSIVE get_value(_, _)
get_value(self, node) ==
    CASE node.type = "Constant" -> WithLog(<<Repr(node.value)>>, Return(node.value))
      [] node.type = "List" ->
            LET items == [i \in 1..Len(node.elts) |-> get_value(self, node.elts[i])]
            IN list_value(items, FirstRaise(items))
      [] node.type = "Dict" ->
            LET keys == [i \in 1..Len(node.keys) |-> get_value(self, node.keys[i])]
                values == [i \in 1..Len(node.keys) |-> get_value(self, node.values[i])]
            IN dict_value(keys, values,
                          {i \in 1..Len(keys) : ~keys[i].ok \/ ~values[i].ok \/ ~Hashable(keys[i].val)})
      [] node.type = "Name" -> WithLog(<<node.id>>, json_loads(node.id))
      [] node.type = "Call" ->
            IF node.func.type # "Name" THEN Raise("AttributeError")
            ELSE IF node.func.id \notin DOMAIN self.functions THEN Raise("KeyError")
            ELSE LET args == [i \in 1..Len(node.args) |-> get_value(self, node.args[i])]
                 IN call_value(self.functions[node.func.id], node.func.id, args, FirstRaise(args))
      [] node.type = "Compare" ->
            LET left == get_value(self, node.left)
                operands == [i \in 1..Len(node.ops) |-> get_value(self, node.comparators[i])]
                links == [i \in 1..Len(node.ops) |->
                             link_value(self.operator_functions, node.ops[i],
                                        link_left(left, operands, i), operands[i].val)]
            IN compare_value(node.ops, self.operator_functions, left, operands, links,
                             Least({i \in 1..Len(node.ops) :
                                        ~operands[i].ok \/ ~links[i].ok \/ ~Truthy(links[i].val)}
                                   \cup {Len(node.ops) + 1}))
      [] node.type = "BoolOp" ->
            IF node.op \notin DOMAIN self.operator_functions THEN Raise("KeyError")
            ELSE LET values == [i \in 1..Len(node.values) |-> get_value(self, node.values[i])]
                 IN bool_value(self.operator_functions[node.op], values, FirstRaise(values))
      [] node.type = "UnaryOp" ->
            IF node.op \notin DOMAIN self.operator_functions THEN Raise("KeyError")
            ELSE unary_value(self.operator_functions[node.op], get_value(self, node.operand))
      [] OTHER -> Raise("SyntaxError")

\* the try of evaluate around get_value as well: every exception of the
\* evaluation becomes SyntaxError
evaluate_parsed_caught(self, parsed) ==
    IF parsed.ok /\ get_value(self, parsed.node).ok THEN get_value(self, parsed.node)
    ELSE Raise("SyntaxError")

\* IfElif.evaluate: parsed the outcome of ast.parse
evaluate_parsed(self, parsed) ==
    IF parsed.ok THEN get_value(self, parsed.node) ELSE Raise("SyntaxError")
evaluate(self, expression) == evaluate_parsed(self, ast_parse(expression))

(***************************************************************************)
(* Construction: handle_flags and load_conditions_with_values.             *)
(***************************************************************************)
\* the flag bits of Python's re module
re_IGNORECASE == 2
re_MULTILINE == 8
re_DOTALL == 16

\* the bits of regex_dot_all and regex_multiline taken for each other
regex_flags_swapped(flags) ==
    re_MULTILINE * (IF "regex_dot_all" \in flags THEN 1 ELSE 0)
    + re_DOTALL * (IF "regex_multiline" \in flags THEN 1 ELSE 0)
    + re_IGNORECASE * (IF "case_insensitive" \in flags THEN 1 ELSE 0)

\* self.regex_flags: the three bits are distinct, so | is +
regex_flags_of(flags) ==
    re_DOTALL * (IF "regex_dot_all" \in flags THEN 1 ELSE 0)
    + re_MULTILINE * (IF "regex_multiline" \in flags THEN 1 ELSE 0)
    + re_IGNORECASE * (IF "case_insensitive" \in flags THEN 1 ELSE 0)

\* self.functions
functions_of(flags) ==
    [name \in {<<"r", "e", "g", "e", "x", "_", "m", "a", "t", "c", "h">>} |->
        [fn |-> IF "regex_full_match" \in flags THEN "fullmatch" ELSE "search",
         flags |-> regex_flags_of(flags)]]

\* eq and its negation entered under each other's operator
operator_functions_update_swapped(table, flags) ==
    IF "case_insensitive" \in flags
    THEN [table EXCEPT !["Eq"] = "not eq", !["NotEq"] = "eq"]
    ELSE table

\* self.operator_functions |= {ast.Eq: eq, ast.NotEq: lambda x, y: not eq(x, y)}:
\* self.operator_functions is the dict of the class, |= updates that dict in
\* place and then binds the same dict on the instance
operator_functions_update(table, flags) ==
    IF "case_insensitive" \in flags
    THEN [table EXCEPT !["Eq"] = "eq", !["NotEq"] = "not eq"]
    ELSE table

\* demisto.dt(values, key), the lookup of the host: . is the value itself,
\* a key of a dict its value, anything else None
dt(values, key) ==
    IF key = <<".">> THEN values
    ELSE IF values.k = "dict" /\ \E i \in 1..(Len(values.l) \div 2) : values.l[2 * i - 1] = PyStr(key)
    THEN values.l[2 * (CHOOSE i \in 1..(Len(values.l) \div 2) : values.l[2 * i - 1] = PyStr(key))]
    ELSE PyNone

\* str() in place of repr(): a str is spliced in without its quotes
from_value_str(values, key) ==
    IF dt(values, key).k = "str" THEN dt(values, key).s ELSE Repr(dt(values, key))

\* from_value
from_value(values, key) == Repr(dt(values, key))

\* re.compile('#{([\s\S]+?)}').sub(from_value, conditions), from index i on:
\* the leftmost #{, at least one character, up to the nearest }
RECURSIVE sub(_, _, _)
sub(values, conditions, i) ==
    LET open == Find(conditions, i, <<"#", "{">>)
        close == IF open = 0 THEN 0 ELSE Find(conditions, open + 3, <<"}">>)
    IN IF close = 0 THEN SubSeq(conditions, i, Len(conditions))
       ELSE SubSeq(conditions, i, open - 1)
            \o from_value(values, SubSeq(conditions, open + 2, close - 1))
            \o sub(values, conditions, close + 1)

(***************************************************************************)
(* parse_conditions.                                                       *)
(***************************************************************************)
\* the items of iterating v for *conditions, default = v
unpack(v) ==
    CASE v.k = "list" -> [ok |-> TRUE, items |-> v.l, err |-> ""]
      [] v.k = "str" -> [ok |-> TRUE, items |-> [i \in 1..Len(v.s) |-> PyStr(<<v.s[i]>>)], err |-> ""]
      [] v.k = "dict" ->
            [ok |-> TRUE, items |-> [i \in 1..(Len(v.l) \div 2) |-> v.l[2 * i - 1]], err |-> ""]
      [] OTHER -> [ok |-> FALSE, items |-> <<>>, err |-> "TypeError"]

\* v.get(key): None for a key that is missing
subscript_get(v, key) ==
    CASE v.k = "dict" ->
            LET hits == {i \in 1..(Len(v.l) \div 2) : PyEq(v.l[2 * i - 1], PyStr(key))}
            IN IF hits = {} THEN Return(PyNone) ELSE Return(v.l[2 * (CHOOSE i \in hits : TRUE)])
      [] v.k = "Match" -> Raise("IndexError")
      [] OTHER -> Raise("TypeError")

\* v[key] for a str key
subscript(v, key) ==
    CASE v.k = "dict" ->
            LET hits == {i \in 1..(Len(v.l) \div 2) : PyEq(v.l[2 * i - 1], PyStr(key))}
            IN IF hits = {} THEN Raise("KeyError") ELSE Return(v.l[2 * (CHOOSE i \in hits : TRUE)])
      [] v.k = "Match" -> Raise("IndexError")
      [] OTHER -> Raise("TypeError")

\* self.evaluate(expression) of any value: ast.parse raises on what is not
\* a str, and evaluate turns every exception of ast.parse into SyntaxError
evaluate_value(self, expression) ==
    IF expression.k = "str" THEN evaluate(self, expression.s) ELSE Raise("SyntaxError")

\* default, *conditions = r: the default taken from the front
unpack_default_first(r) ==
    LET u == unpack(r.val)
        n == Len(u.items)
        d == subscript(u.items[1], <<"e", "l", "s", "e">>)
        failed(e) == [ok |-> FALSE, entries |-> <<>>, default |-> PyNone, err |-> e]
    IN IF ~r.ok THEN failed(r.err)
       ELSE IF ~u.ok THEN failed(u.err)
       ELSE IF n = 0 THEN failed("ValueError")
       ELSE IF ~d.ok THEN failed(d.err)
       ELSE [ok |-> TRUE, entries |-> SubSeq(u.items, 2, n), default |-> d.val, err |-> ""]

\* *conditions, default = r and the default argument of next(),
\* default['else']: the entries and the default's else value, or the exception
unpack_default(r) ==
    LET u == unpack(r.val)
        n == Len(u.items)
        d == subscript(u.items[n], <<"e", "l", "s", "e">>)
        failed(e) == [ok |-> FALSE, entries |-> <<>>, default |-> PyNone, err |-> e]
    IN IF ~r.ok THEN failed(r.err)
       ELSE IF ~u.ok THEN failed(u.err)
       ELSE IF n = 0 THEN failed("ValueError")
       ELSE IF ~d.ok THEN failed(d.err)
       ELSE [ok |-> TRUE, entries |-> SubSeq(u.items, 1, n - 1), default |-> d.val, err |-> ""]

\* parse_conditions up to the call of next(), line 99 and line 106
parse_conditions_start(self, conditions) == unpack_default(evaluate(self, conditions))

\* a generator that passes over an entry whose condition raises
generator_turn_skipping(c, e, ret) ==
    IF ~c.ok THEN [do |-> "raise", val |-> PyNone, err |-> c.err, evals |-> <<>>]
    ELSE IF ~e.ok THEN [do |-> "next", val |-> PyNone, err |-> "", evals |-> <<[expr |-> c.val, out |-> e]>>]
    ELSE IF ~Truthy(e.val) THEN [do |-> "next", val |-> PyNone, err |-> "", evals |-> <<[expr |-> c.val, out |-> e]>>]
    ELSE IF ~ret.ok THEN [do |-> "raise", val |-> PyNone, err |-> ret.err, evals |-> <<[expr |-> c.val, out |-> e]>>]
    ELSE [do |-> "yield", val |-> ret.val, err |-> "", evals |-> <<[expr |-> c.val, out |-> e]>>]

\* what the generator does with an entry: c the outcome of
\* condition['condition'], e that of self.evaluate on it and ret that of
\* condition['return']: "yield" the return value, go on to the "next"
\* entry, or "raise"
generator_turn(c, e, ret) ==
    IF ~c.ok THEN [do |-> "raise", val |-> PyNone, err |-> c.err, evals |-> <<>>]
    ELSE IF ~e.ok THEN [do |-> "raise", val |-> PyNone, err |-> e.err, evals |-> <<[expr |-> c.val, out |-> e]>>]
    ELSE IF ~Truthy(e.val) THEN [do |-> "next", val |-> PyNone, err |-> "", evals |-> <<[expr |-> c.val, out |-> e]>>]
    ELSE IF ~ret.ok THEN [do |-> "raise", val |-> PyNone, err |-> ret.err, evals |-> <<[expr |-> c.val, out |-> e]>>]
    ELSE [do |-> "yield", val |-> ret.val, err |-> "", evals |-> <<[expr |-> c.val, out |-> e]>>]

\* one turn of the generator of parse_conditions on an entry
generator_step(self, condition) ==
    generator_turn(subscript(condition, <<"c", "o", "n", "d", "i", "t", "i", "o", "n">>),
                   evaluate_value(self, subscript(condition, <<"c", "o", "n", "d", "i", "t", "i", "o", "n">>).val),
                   subscript(condition, <<"r", "e", "t", "u", "r", "n">>))

(***************************************************************************)
(* The inputs of an invocation: value, conditions text and flags.          *)
(***************************************************************************)
MaxEntries == 2
MaxOperands == 3
MaxLinks == 2
NInstances == 2

\* a condition-list text: [{"condition": "c", "return": "r1"}, ..., {"else": "none"}]
EntryText(condition, i) ==
    <<"{", "\"", "c", "o", "n", "d", "i", "t", "i", "o", "n", "\"", ":", " ", "\"">> \o condition \o <<"\"", ",", " ", "\"", "r", "e", "t", "u", "r", "n", "\"", ":", " ", "\"", "r">> \o Digits(i) \o <<"\"", "}">>
DefaultText == <<"{", "\"", "e", "l", "s", "e", "\"", ":", " ", "\"", "n", "o", "n", "e", "\"", "}">>
ListText(conditions) ==
    <<"[">> \o Join([i \in 1..(Len(conditions) + 1) |->
                       IF i <= Len(conditions) THEN EntryText(conditions[i], i) ELSE DefaultText])
    \o <<"]">>

\* all sequences over S of length lo..hi
SeqsOf(S, lo, hi) == UNION {[1..n -> S] : n \in lo..hi}

\* the condition expressions the generated lists are made of
EntryConditions == {<<"t", "r", "u", "e">>, <<"f", "a", "l", "s", "e">>, <<"u", "n", "d", "e", "f", "i", "n", "e", "d", "_", "n", "a", "m", "e">>, <<"#", "{", ".", "}", " ", ">", " ", "1", "0">>}

\* s1 sep s2 sep ... sn
RECURSIVE Interleave(_, _)
Interleave(parts, seps) ==
    IF Len(parts) = 1 THEN parts[1]
    ELSE parts[1] \o <<" ">> \o seps[1] \o <<" ">> \o Interleave(Tail(parts), Tail(seps))

\* and / or over 2..MaxOperands operands
BoolOperands == {<<"'", "a", "'">>, <<"0">>, <<"u", "n", "d", "e", "f", "i", "n", "e", "d", "_", "n", "a", "m", "e">>}
BoolOpTexts ==
    {Interleave(operands, [i \in 1..(Len(operands) - 1) |-> op]) :
        operands \in SeqsOf(BoolOperands, 2, MaxOperands), op \in {<<"a", "n", "d">>, <<"o", "r">>}}

\* chained comparisons of 1..MaxLinks links
CompareOperands == {<<"1">>, <<"2">>, <<"'", "a", "'">>}
CompareOps == {<<"<">>, <<"=", "=">>}
CompareTexts ==
    UNION {{Interleave(operands, ops) : operands \in [1..(n + 1) -> CompareOperands],
                                         ops \in [1..n -> CompareOps]} : n \in 1..MaxLinks}

\* == and != between values of every kind
EqOperands ==
    {<<"'", "A", "B", "C", "'">>, <<"'", "a", "b", "c", "'">>, <<"1">>, <<"1", ".", "0">>, <<"'", "1", "'">>, <<"T", "r", "u", "e">>, <<"'", "t", "r", "u", "e", "'">>, <<"N", "o", "n", "e">>,
     <<"[", "1", ",", " ", "'", "A", "'", "]">>, <<"[", "1", ",", " ", "'", "a", "'", "]">>}
EqTexts ==
    {x \o <<" ">> \o op \o <<" ">> \o y : x \in EqOperands, y \in EqOperands, op \in {<<"=", "=">>, <<"!", "=">>}}

\* the texts of the examples, and condition lists of every ill shape
ExampleTexts ==
    {<<"[", "{", "\"", "c", "o", "n", "d", "i", "t", "i", "o", "n", "\"", ":", " ", "\"", "V", "A", "L", "U", "E", " ", ">", " ", "1", "0", "\"", ",", " ", "\"", "r", "e", "t", "u", "r", "n", "\"", ":", " ", "\"", "b", "i", "g", "\"", "}", ",", " ", "{", "\"", "c", "o", "n", "d", "i", "t", "i", "o", "n", "\"", ":", " ", "\"", "V", "A", "L", "U", "E", " ", ">", " ", "0", "\"", ",", " ", "\"", "r", "e", "t", "u", "r", "n", "\"", ":", " ", "\"", "s", "m", "a", "l", "l", "\"", "}", ",", " ", "{", "\"", "e", "l", "s", "e", "\"", ":", " ", "\"", "n", "o", "n", "e", "\"", "}", "]">>,
     <<"[", "{", "\"", "c", "o", "n", "d", "i", "t", "i", "o", "n", "\"", ":", " ", "\"", "1", " ", "<", " ", "2", " ", "<", " ", "3", "\"", ",", " ", "\"", "r", "e", "t", "u", "r", "n", "\"", ":", " ", "\"", "a", "\"", "}", ",", " ", "{", "\"", "e", "l", "s", "e", "\"", ":", " ", "\"", "b", "\"", "}", "]">>,
     <<"[", "{", "\"", "c", "o", "n", "d", "i", "t", "i", "o", "n", "\"", ":", " ", "\"", "1", " ", "<", " ", "3", " ", "<", " ", "2", "\"", ",", " ", "\"", "r", "e", "t", "u", "r", "n", "\"", ":", " ", "\"", "a", "\"", "}", ",", " ", "{", "\"", "e", "l", "s", "e", "\"", ":", " ", "\"", "b", "\"", "}", "]">>,
     <<"[", "{", "\"", "c", "o", "n", "d", "i", "t", "i", "o", "n", "\"", ":", " ", "\"", "1", " ", "<", " ", "2", " ", "a", "n", "d", " ", "2", " ", "<", " ", "3", "\"", ",", " ", "\"", "r", "e", "t", "u", "r", "n", "\"", ":", " ", "\"", "a", "\"", "}", ",", " ", "{", "\"", "e", "l", "s", "e", "\"", ":", " ", "\"", "b", "\"", "}", "]">>,
     <<"[", "{", "\"", "c", "o", "n", "d", "i", "t", "i", "o", "n", "\"", ":", " ", "\"", "f", "a", "l", "s", "e", " ", "a", "n", "d", " ", "u", "n", "d", "e", "f", "i", "n", "e", "d", "_", "n", "a", "m", "e", "\"", ",", " ", "\"", "r", "e", "t", "u", "r", "n", "\"", ":", " ", "\"", "a", "\"", "}", ",", " ", "{", "\"", "e", "l", "s", "e", "\"", ":", " ", "\"", "b", "\"", "}", "]">>,
     <<"[", "{", "\"", "c", "o", "n", "d", "i", "t", "i", "o", "n", "\"", ":", " ", "\"", "t", "r", "u", "e", " ", "o", "r", " ", "u", "n", "d", "e", "f", "i", "n", "e", "d", "_", "n", "a", "m", "e", "\"", ",", " ", "\"", "r", "e", "t", "u", "r", "n", "\"", ":", " ", "\"", "a", "\"", "}", ",", " ", "{", "\"", "e", "l", "s", "e", "\"", ":", " ", "\"", "b", "\"", "}", "]">>,
     <<"[", "{", "\"", "c", "o", "n", "d", "i", "t", "i", "o", "n", "\"", ":", " ", "\"", "2", " ", ">", "=", " ", "1", " ", ">", " ", "0", " ", "!", "=", " ", "3", " ", "<", "=", " ", "3", "\"", ",", " ", "\"", "r", "e", "t", "u", "r", "n", "\"", ":", " ", "\"", "a", "\"", "}", ",", " ", "{", "\"", "e", "l", "s", "e", "\"", ":", " ", "\"", "b", "\"", "}", "]">>,
     <<"[", "{", "\"", "c", "o", "n", "d", "i", "t", "i", "o", "n", "\"", ":", " ", "\"", "1", " ", "+", "\"", ",", " ", "\"", "r", "e", "t", "u", "r", "n", "\"", ":", " ", "\"", "a", "\"", "}", ",", " ", "{", "\"", "e", "l", "s", "e", "\"", ":", " ", "\"", "b", "\"", "}", "]">>,
     <<"[", "{", "\"", "c", "o", "n", "d", "i", "t", "i", "o", "n", "\"", ":", " ", "\"", "f", "a", "l", "s", "e", "\"", ",", " ", "\"", "r", "e", "t", "u", "r", "n", "\"", ":", " ", "\"", "a", "\"", "}", ",", " ", "{", "\"", "c", "o", "n", "d", "i", "t", "i", "o", "n", "\"", ":", " ", "\"", "#", "{", ".", "}", " ", ">", " ", "0", "\"", ",", " ", "\"", "r", "e", "t", "u", "r", "n", "\"", ":", " ", "\"", "b", "\"", "}", ",", " ", "{", "\"", "c", "o", "n", "d", "i", "t", "i", "o", "n", "\"", ":", " ", "\"", "u", "n", "d", "e", "f", "i", "n", "e", "d", "_", "n", "a", "m", "e", "\"", ",", " ", "\"", "r", "e", "t", "u", "r", "n", "\"", ":", " ", "\"", "c", "\"", "}", ",", " ", "{", "\"", "e", "l", "s", "e", "\"", ":", " ", "\"", "d", "\"", "}", "]">>}
IllShapedTexts ==
    {<<"[", "]">>, <<"5">>, <<"n", "u", "l", "l">>, <<"\"", "a", "b", "\"">>, <<"{", "\"", "e", "l", "s", "e", "\"", ":", " ", "1", "}">>, <<"u", "n", "d", "e", "f", "i", "n", "e", "d", "_", "n", "a", "m", "e">>, <<"[", "1">>,
     <<"[", "{", "\"", "c", "o", "n", "d", "i", "t", "i", "o", "n", "\"", ":", " ", "\"", "t", "r", "u", "e", "\"", ",", " ", "\"", "r", "e", "t", "u", "r", "n", "\"", ":", " ", "\"", "a", "\"", "}", "]">>,
     <<"[", "{", "\"", "c", "o", "n", "d", "i", "t", "i", "o", "n", "\"", ":", " ", "\"", "t", "r", "u", "e", "\"", ",", " ", "\"", "r", "e", "t", "u", "r", "n", "\"", ":", " ", "\"", "a", "\"", "}", ",", " ", "5", "]">>,
     <<"[", "{", "\"", "c", "o", "n", "d", "i", "t", "i", "o", "n", "\"", ":", " ", "\"", "t", "r", "u", "e", "\"", ",", " ", "\"", "r", "e", "t", "u", "r", "n", "\"", ":", " ", "\"", "a", "\"", "}", ",", " ", "[", "\"", "e", "l", "s", "e", "\"", "]", "]">>,
     <<"[", "{", "\"", "c", "o", "n", "d", "i", "t", "i", "o", "n", "\"", ":", " ", "\"", "t", "r", "u", "e", "\"", ",", " ", "\"", "r", "e", "t", "u", "r", "n", "\"", ":", " ", "\"", "a", "\"", "}", ",", " ", "{", "\"", "d", "e", "f", "a", "u", "l", "t", "\"", ":", " ", "1", "}", "]">>,
     <<"[", "{", "\"", "c", "o", "n", "d", "i", "t", "i", "o", "n", "\"", ":", " ", "\"", "t", "r", "u", "e", "\"", "}", ",", " ", "{", "\"", "e", "l", "s", "e", "\"", ":", " ", "1", "}", "]">>,
     <<"[", "{", "\"", "r", "e", "t", "u", "r", "n", "\"", ":", " ", "\"", "a", "\"", "}", ",", " ", "{", "\"", "e", "l", "s", "e", "\"", ":", " ", "1", "}", "]">>,
     <<"[", "{", "\"", "c", "o", "n", "d", "i", "t", "i", "o", "n", "\"", ":", " ", "1", ",", " ", "\"", "r", "e", "t", "u", "r", "n", "\"", ":", " ", "\"", "a", "\"", "}", ",", " ", "{", "\"", "e", "l", "s", "e", "\"", ":", " ", "1", "}", "]">>,
     <<"[", "5", ",", " ", "{", "\"", "e", "l", "s", "e", "\"", ":", " ", "1", "}", "]">>,
     <<"[", "{", "\"", "e", "l", "s", "e", "\"", ":", " ", "n", "u", "l", "l", "}", "]">>}

\* condition lists with an element that is no entry
MalformedEntryTexts ==
    {<<"[", "{", "\"", "c", "o", "n", "d", "i", "t", "i", "o", "n", "\"", ":", " ", "\"", "t", "r", "u", "e", "\"", ",", " ", "\"", "r", "e", "t", "u", "r", "n", "\"", ":", " ", "\"", "a", "\"", "}", ",", " ", "{", "}", ",", " ", "{", "\"", "e", "l", "s", "e", "\"", ":", " ", "1", "}", "]">>,
     <<"[", "{", "}", ",", " ", "{", "\"", "e", "l", "s", "e", "\"", ":", " ", "1", "}", "]">>,
     <<"[", "{", "\"", "c", "o", "n", "d", "i", "t", "i", "o", "n", "\"", ":", " ", "\"", "f", "a", "l", "s", "e", "\"", ",", " ", "\"", "r", "e", "t", "u", "r", "n", "\"", ":", " ", "\"", "a", "\"", "}", ",", " ", "{", "\"", "x", "\"", ":", " ", "1", "}", ",", " ", "{", "\"", "e", "l", "s", "e", "\"", ":", " ", "1", "}", "]">>,
     <<"[", "{", "}", ",", " ", "{", "\"", "c", "o", "n", "d", "i", "t", "i", "o", "n", "\"", ":", " ", "\"", "t", "r", "u", "e", "\"", ",", " ", "\"", "r", "e", "t", "u", "r", "n", "\"", ":", " ", "\"", "a", "\"", "}", ",", " ", "{", "\"", "e", "l", "s", "e", "\"", ":", " ", "1", "}", "]">>}

\* conditions with calls, identifiers, constructs get_value has no case for,
\* and chains with an operand that raises
CallTexts ==
    {<<"u", "n", "k", "n", "o", "w", "n", "_", "f", "n", "(", "1", ",", "2", ")">>, <<"u", "n", "k", "n", "o", "w", "n", "_", "f", "n", "(", "u", "n", "d", "e", "f", "i", "n", "e", "d", "_", "n", "a", "m", "e", ")">>, <<"u", "n", "k", "n", "o", "w", "n", "_", "f", "n", "(", "1", " ", "+", " ", "2", ")">>,
     <<"[", "u", "n", "k", "n", "o", "w", "n", "_", "f", "n", "(", "1", ")", "]">>, <<"1", " ", "<", " ", "u", "n", "k", "n", "o", "w", "n", "_", "f", "n", "(", "1", ")">>, <<"r", "e", "g", "e", "x", "_", "m", "a", "t", "c", "h", "(", "'", "b", "'", ",", " ", "'", "a", "b", "c", "'", ")">>}
NameTexts == {<<"t", "r", "u", "e">>, <<"f", "a", "l", "s", "e">>, <<"n", "u", "l", "l">>, <<"N", "a", "N">>, <<"I", "n", "f", "i", "n", "i", "t", "y">>, <<"u", "n", "d", "e", "f", "i", "n", "e", "d", "_", "n", "a", "m", "e">>, <<"V", "A", "L", "U", "E">>}
UnsupportedTexts ==
    {<<"1", " ", "+", " ", "2">>, <<"(", "1", ",", " ", "2", ")">>, <<"a", ".", "b">>, <<"1", " ", "i", "s", " ", "1">>, <<"+", "1">>, <<"r", "e", "g", "e", "x", "_", "m", "a", "t", "c", "h", "(", "'", "a", "'", ",", " ", "'", "a", "'", ",", " ", "f", "l", "a", "g", "s", "=", "0", ")">>,
     <<"2", " ", "<", " ", "1", " ", "<", " ", "1", " ", "+", " ", "2">>, <<"n", "o", "t", " ", "(", "1", " ", "+", " ", "2", ")">>, <<"[", "1", " ", "+", " ", "2", "]">>}
RaisingChainTexts ==
    {<<"2", " ", "<", " ", "1", " ", "<", " ", "u", "n", "d", "e", "f", "i", "n", "e", "d", "_", "n", "a", "m", "e">>, <<"1", " ", "<", " ", "2", " ", "<", " ", "u", "n", "d", "e", "f", "i", "n", "e", "d", "_", "n", "a", "m", "e">>, <<"2", " ", "<", " ", "1", " ", "<", " ", "u", "n", "k", "n", "o", "w", "n", "_", "f", "n", "(", "1", ")">>,
     <<"u", "n", "d", "e", "f", "i", "n", "e", "d", "_", "n", "a", "m", "e", " ", "<", " ", "1">>}

\* the flag tokens, and calls of regex_match
FlagTokens == {"case_insensitive", "regex_dot_all", "regex_multiline", "regex_full_match"}
RegexTexts == {<<"r", "e", "g", "e", "x", "_", "m", "a", "t", "c", "h", "(", "'", "b", "'", ",", " ", "'", "a", "b", "c", "'", ")">>, <<"r", "e", "g", "e", "x", "_", "m", "a", "t", "c", "h", "(", "'", "B", "'", ",", " ", "'", "b", "'", ")">>, <<"r", "e", "g", "e", "x", "_", "m", "a", "t", "c", "h", "(", "'", "a", "b", "c", "'", ",", " ", "'", "a", "b", "c", "'", ")">>}

NoFlags == {}
\* no variables argument
NoVariables == <<>>
Input(value, conditions, flags) == [value |-> value, conditions |-> conditions, flags |-> flags]

\* and / or over operands of distinct falsy and truthy values
BoolValueTexts == {<<"'", "'", " ", "a", "n", "d", " ", "0">>, <<"0", " ", "a", "n", "d", " ", "'", "'">>, <<"2", " ", "o", "r", " ", "1">>, <<"0", " ", "o", "r", " ", "'", "'", " ", "o", "r", " ", "[", "]">>, <<"1", " ", "a", "n", "d", " ", "'", "a", "'", " ", "a", "n", "d", " ", "2">>, <<"n", "u", "l", "l", " ", "a", "n", "d", " ", "0">>, <<"[", "]", " ", "o", "r", " ", "0">>}
\* comparisons, orderings and membership tests between values of every kind
TypeErrorTexts == {<<"{", "}", " ", "<", " ", "1">>, <<"'", "a", "'", " ", "<", " ", "1">>, <<"1", " ", "<", "=", " ", "'", "a", "'">>, <<"n", "u", "l", "l", " ", ">", " ", "1">>, <<"[", "1", "]", " ", ">", "=", " ", "1">>, <<"1", " ", "i", "n", " ", "5">>, <<"1", " ", "n", "o", "t", " ", "i", "n", " ", "n", "u", "l", "l">>, <<"'", "a", "'", " ", "i", "n", " ", "1">>, <<"1", " ", "<", " ", "2", " ", "<", " ", "'", "a", "'">>, <<"2", " ", "<", " ", "1", " ", "<", " ", "'", "a", "'">>, <<"t", "r", "u", "e", " ", "<", " ", "2">>, <<"1", " ", "i", "n", " ", "[", "1", "]">>, <<"1", " ", "i", "n", " ", "r", "e", "g", "e", "x", "_", "m", "a", "t", "c", "h", "(", "'", "a", "'", ",", "'", "a", "'", ")">>, <<"1", " ", "i", "n", " ", "t", "r", "u", "e">>, <<"'", "a", "'", " ", "i", "n", " ", "'", "a", "b", "c", "'">>, <<"1", " ", "i", "n", " ", "{", "1", ":", " ", "2", "}">>, <<"2", " ", "n", "o", "t", " ", "i", "n", " ", "[", "1", ",", " ", "3", "]">>, <<"1", " ", ">", " ", "t", "r", "u", "e">>, <<"[", "1", ",", " ", "2", "]", " ", "<", "=", " ", "[", "1", ",", " ", "3", "]">>, <<"r", "e", "g", "e", "x", "_", "m", "a", "t", "c", "h", "(", "'", "a", "'", ",", " ", "'", "a", "'", ")", " ", "!", "=", " ", "n", "u", "l", "l">>, <<"'", "a", "'", " ", "=", "=", " ", "'", "a", "'", " ", "!", "=", " ", "'", "'">>, <<"n", "u", "l", "l", " ", "i", "n", " ", "[", "n", "u", "l", "l", "]">>}
\* not and unary minus of values of every kind
UnaryTexts == {<<"n", "o", "t", " ", "0">>, <<"n", "o", "t", " ", "'", "a", "'">>, <<"n", "o", "t", " ", "'", "'">>, <<"n", "o", "t", " ", "n", "u", "l", "l">>, <<"n", "o", "t", " ", "[", "]">>, <<"n", "o", "t", " ", "[", "0", "]">>, <<"n", "o", "t", " ", "{", "}">>, <<"n", "o", "t", " ", "r", "e", "g", "e", "x", "_", "m", "a", "t", "c", "h", "(", "'", "b", "'", ",", "'", "a", "b", "c", "'", ")">>, <<"n", "o", "t", " ", "n", "o", "t", " ", "1">>, <<"-", "1">>, <<"-", "t", "r", "u", "e">>, <<"-", " ", "'", "a", "'">>, <<"-", "n", "u", "l", "l">>, <<"-", "[", "1", "]">>, <<"-", "{", "}">>, <<"-", "-", "1">>, <<"-", "1", ".", "0">>, <<"-", "I", "n", "f", "i", "n", "i", "t", "y">>, <<"-", "r", "e", "g", "e", "x", "_", "m", "a", "t", "c", "h", "(", "'", "b", "'", ",", "'", "a", "b", "c", "'", ")">>}
\* == and != between values that are equal and print differently
CoarseTexts == {<<"t", "r", "u", "e", " ", "=", "=", " ", "1">>, <<"[", "1", "]", " ", "=", "=", " ", "[", "1", ".", "0", "]">>, <<"n", "u", "l", "l", " ", "=", "=", " ", "n", "u", "l", "l">>, <<"0", " ", "=", "=", " ", "f", "a", "l", "s", "e">>, <<"t", "r", "u", "e", " ", "!", "=", " ", "1">>, <<"2", " ", "=", "=", " ", "2">>}
\* condition lists with a return or else expression that raises
ReturnErrorTexts ==
    {<<"[", "{", "\"", "c", "o", "n", "d", "i", "t", "i", "o", "n", "\"", ":", " ", "\"", "t", "r", "u", "e", "\"", ",", " ", "\"", "r", "e", "t", "u", "r", "n", "\"", ":", " ", "\"", "a", "\"", "}", ",", " ", "{", "\"", "c", "o", "n", "d", "i", "t", "i", "o", "n", "\"", ":", " ", "\"", "f", "a", "l", "s", "e", "\"", ",", " ", "\"", "r", "e", "t", "u", "r", "n", "\"", ":", " ", "u", "n", "d", "e", "f", "i", "n", "e", "d", "_", "n", "a", "m", "e", "}", ",", " ", "{", "\"", "e", "l", "s", "e", "\"", ":", " ", "1", "}", "]">>,
     <<"[", "{", "\"", "c", "o", "n", "d", "i", "t", "i", "o", "n", "\"", ":", " ", "\"", "t", "r", "u", "e", "\"", ",", " ", "\"", "r", "e", "t", "u", "r", "n", "\"", ":", " ", "\"", "a", "\"", "}", ",", " ", "{", "\"", "e", "l", "s", "e", "\"", ":", " ", "u", "n", "d", "e", "f", "i", "n", "e", "d", "_", "n", "a", "m", "e", "}", "]">>,
     <<"[", "{", "\"", "c", "o", "n", "d", "i", "t", "i", "o", "n", "\"", ":", " ", "\"", "t", "r", "u", "e", "\"", ",", " ", "\"", "r", "e", "t", "u", "r", "n", "\"", ":", " ", "\"", "a", "\"", "}", ",", " ", "{", "\"", "e", "l", "s", "e", "\"", ":", " ", "1", " ", "+", " ", "2", "}", "]">>,
     <<"[", "{", "\"", "c", "o", "n", "d", "i", "t", "i", "o", "n", "\"", ":", " ", "\"", "f", "a", "l", "s", "e", "\"", ",", " ", "\"", "r", "e", "t", "u", "r", "n", "\"", ":", " ", "u", "n", "k", "n", "o", "w", "n", "_", "f", "n", "(", "1", ")", "}", ",", " ", "{", "\"", "e", "l", "s", "e", "\"", ":", " ", "1", "}", "]">>,
     <<"[", "{", "\"", "c", "o", "n", "d", "i", "t", "i", "o", "n", "\"", ":", " ", "\"", "t", "r", "u", "e", "\"", ",", " ", "\"", "r", "e", "t", "u", "r", "n", "\"", ":", " ", "u", "n", "d", "e", "f", "i", "n", "e", "d", "_", "n", "a", "m", "e", "}", ",", " ", "{", "\"", "e", "l", "s", "e", "\"", ":", " ", "1", "}", "]">>}
\* invocations whose conditions text has #{...} segments
TemplatedInputs ==
    {Input(PyStr(<<"#", "{", ".", "}">>), ListText(<<<<"#", "{", ".", "}", " ", "!", "=", " ", "1">>>>), NoFlags),
     Input(PyInt(15), <<"[", "{", "\"", "c", "o", "n", "d", "i", "t", "i", "o", "n", "\"", ":", " ", "\"", "#", "{", ".", "}", " ", ">", " ", "1", "0", "\"", ",", " ", "\"", "r", "e", "t", "u", "r", "n", "\"", ":", " ", "#", "{", ".", "}", "}", ",", " ", "{", "\"", "e", "l", "s", "e", "\"", ":", " ", "\"", "#", "{", "n", "o", "k", "e", "y", "}", "\"", "}", "]">>, NoFlags),
     Input(PyDict(<<PyStr(<<"a">>), PyInt(7)>>), <<"[", "{", "\"", "c", "o", "n", "d", "i", "t", "i", "o", "n", "\"", ":", " ", "\"", "#", "{", "a", "}", " ", ">", " ", "1", "0", "\"", ",", " ", "\"", "r", "e", "t", "u", "r", "n", "\"", ":", " ", "#", "{", ".", "}", "}", ",", " ", "{", "\"", "e", "l", "s", "e", "\"", ":", " ", "\"", "#", "{", "b", "}", "\"", "}", "]">>, NoFlags),
     Input(PyInt(15), <<"[", "{", "\"", "c", "o", "n", "d", "i", "t", "i", "o", "n", "\"", ":", " ", "\"", "t", "r", "u", "e", "\"", ",", " ", "\"", "r", "e", "t", "u", "r", "n", "\"", ":", " ", "\"", "#", "{", "}", "\"", "}", ",", " ", "{", "\"", "e", "l", "s", "e", "\"", ":", " ", "\"", "x", "}", "\"", "}", "]">>, NoFlags),
     Input(PyInt(15), <<"[", "{", "\"", "c", "o", "n", "d", "i", "t", "i", "o", "n", "\"", ":", " ", "\"", "t", "r", "u", "e", "\"", ",", " ", "\"", "r", "e", "t", "u", "r", "n", "\"", ":", " ", "\"", "#", "{", ".", "\"", "}", ",", " ", "{", "\"", "e", "l", "s", "e", "\"", ":", " ", "\"", "x", "\"", "]">>, NoFlags),
     Input(PyStr(<<"}">>), ListText(<<<<"'", "#", "{", ".", "}", "}", "'", " ", "=", "=", " ", "'", "}", "}", "'">>>>), NoFlags)}

\* invocations on condition lists of every length and shape
ListInputs ==
    {Input(v, ListText(c), NoFlags) : v \in {PyInt(15), PyInt(0 - 5)},
                                       c \in SeqsOf(EntryConditions, 0, MaxEntries)}
    \cup {Input(v, t, NoFlags) : v \in {PyInt(15), PyInt(0 - 5)}, t \in ExampleTexts \cup IllShapedTexts}
    \cup {Input(PyInt(15), t, NoFlags) : t \in MalformedEntryTexts \cup ReturnErrorTexts}

\* the invocations of the sequential specification
Inputs ==
    {Input(v, ListText(c), NoFlags) : v \in {PyInt(15), PyInt(0 - 5)},
                                       c \in SeqsOf(EntryConditions, 0, MaxEntries)}
    \cup {Input(PyInt(15), ListText(<<e>>), NoFlags) : e \in BoolOpTexts \cup CompareTexts}
    \cup {Input(PyInt(15), ListText(<<e>>), f) : e \in EqTexts, f \in {NoFlags, {"case_insensitive"}}}
    \cup {Input(v, t, NoFlags) : v \in {PyInt(15), PyInt(0 - 5)}, t \in ExampleTexts \cup IllShapedTexts}
    \cup {Input(PyInt(15), t, NoFlags) : t \in MalformedEntryTexts}
    \cup {Input(PyInt(15), ListText(<<e>>), NoFlags) :
             e \in CallTexts \cup NameTexts \cup UnsupportedTexts \cup RaisingChainTexts}
    \cup {Input(PyInt(15), ListText(<<e>>), f) : e \in RegexTexts, f \in SUBSET FlagTokens}
    \cup {Input(PyInt(15), ListText(<<e>>), NoFlags) : e \in BoolValueTexts \cup TypeErrorTexts \cup UnaryTexts}
    \cup {Input(PyInt(15), ListText(<<e>>), f) : e \in CoarseTexts, f \in {NoFlags, {"case_insensitive"}}}
    \cup {Input(PyInt(15), t, NoFlags) : t \in ReturnErrorTexts}
    \cup TemplatedInputs

\* invocations with a variables argument: a block of key = value lines
\* and a condition that names the key
InputWith(value, conditions, flags, variables) ==
    [value |-> value, conditions |-> conditions, flags |-> flags, variables |-> variables]
VariablesInputs ==
    {InputWith(PyInt(15), ListText(<<<<"x", " ", "=", "=", " ", "5">>>>), NoFlags, <<"x", " ", "=", " ", "5">>),
     InputWith(PyInt(15), ListText(<<<<"z">>>>), NoFlags, <<"z", " ", "=", " ", "t", "r", "u", "e">>),
     InputWith(PyInt(15), ListText(<<<<"w", " ", "=", "=", " ", "'", "f", "o", "o", "-", "b", "a", "r", "'">>>>), NoFlags, <<"w", " ", "=", " ", "f", "o", "o", "-", "b", "a", "r">>)}

\* the invocations of the concurrent specification
ConcurrentInputs ==
    {Input(PyInt(15), ListText(<<e>>), f) :
        e \in {<<"'", "A", "B", "C", "'", " ", "=", "=", " ", "'", "a", "b", "c", "'">>, <<"'", "A", "B", "C", "'", " ", "!", "=", " ", "'", "a", "b", "c", "'">>}, f \in {NoFlags, {"case_insensitive"}}}
    \cup {Input(PyInt(15), ListText(<<<<"u", "n", "d", "e", "f", "i", "n", "e", "d", "_", "n", "a", "m", "e">>>>), NoFlags)}

(***************************************************************************)
(* The process: the class IfElif and its instances.                        *)
(***************************************************************************)
VARIABLES
    operator_functions, \* the dict IfElif.operator_functions of the class
    inst                \* the instances, each with its position in __init__ and parse_conditions

vars == <<operator_functions, inst>>

Instances == 1..NInstances

NoFunctions == [name \in {} |-> [fn |-> "", flags |-> 0]]

\* an instance not constructed yet
NoInstance ==
    [pc |-> "start", value |-> PyNone, raw |-> <<>>, flags |-> {}, regex_flags |-> 0,
     functions |-> NoFunctions, conditions |-> <<>>, entries |-> <<>>, default |-> PyNone,
     idx |-> 0, evals |-> <<>>, result |-> PyNone, error |-> "",
     variables |-> NoVariables, emitted |-> <<>>]

\* what get_value reads of instance i: self.operator_functions is the dict
\* of the class for every instance
Self(i) == [operator_functions |-> operator_functions, functions |-> inst[i].functions]

Terminal(i) == inst[i].pc \in {"Matched", "Exhausted", "failed"}

Init ==
    /\ operator_functions = operator_functions_class
    /\ inst = [i \in Instances |-> NoInstance]

\* IfElif(value, conditions, flags): __init__ calls handle_flags
handle_flags(i, in) ==
    /\ inst[i].pc = "start"
    /\ operator_functions' = operator_functions_update(operator_functions, in.flags)
    /\ inst' = [inst EXCEPT ![i] = [@ EXCEPT !.pc = "handle_flags", !.value = in.value,
                                              !.raw = in.conditions, !.flags = in.flags,
                                              !.regex_flags = regex_flags_of(in.flags),
                                              !.functions = functions_of(in.flags)]]

\* __init__ calls load_conditions_with_values
load_conditions_with_values(i) ==
    /\ inst[i].pc = "handle_flags"
    /\ inst' = [inst EXCEPT ![i] = [@ EXCEPT !.pc = "constructed",
                                              !.conditions = sub(inst[i].value, inst[i].raw, 1)]]
    /\ UNCHANGED operator_functions

\* parse_conditions taken to use up the conditions text it evaluates
started_consumed(self, r) ==
    IF r.ok THEN [self EXCEPT !.pc = "Scanning", !.entries = r.entries, !.default = r.default,
                              !.conditions = <<>>]
    ELSE [self EXCEPT !.pc = "failed", !.error = r.err, !.conditions = <<>>]

\* the instance after parse_conditions has reached next(), r the outcome of
\* parse_conditions_start
started(self, r) ==
    IF r.ok THEN [self EXCEPT !.pc = "Scanning", !.entries = r.entries, !.default = r.default]
    ELSE [self EXCEPT !.pc = "failed", !.error = r.err]

\* parse_conditions up to the call of next()
parse_conditions(i) ==
    /\ inst[i].pc = "constructed"
    /\ inst' = [inst EXCEPT ![i] = started(inst[i], parse_conditions_start(Self(i), inst[i].conditions))]
    /\ UNCHANGED operator_functions

\* a generator consumed to its end: the last entry that yields wins
turned_last(self, g) ==
    LET seen == [self EXCEPT !.idx = @ + 1, !.evals = @ \o g.evals]
    IN CASE g.do = "yield" ->
              [seen EXCEPT !.pc = IF seen.idx = Len(seen.entries) THEN "Matched" ELSE "Scanning",
                           !.result = g.val]
         [] g.do = "raise" -> [seen EXCEPT !.pc = "failed", !.error = g.err]
         [] OTHER -> seen

\* a generator that evaluates the condition of an entry a second time
\* before it goes on
turned_twice(self, g) ==
    LET seen == [self EXCEPT !.idx = @ + 1, !.evals = @ \o g.evals \o g.evals]
    IN CASE g.do = "yield" -> [seen EXCEPT !.pc = "Matched", !.result = g.val]
         [] g.do = "raise" -> [seen EXCEPT !.pc = "failed", !.error = g.err]
         [] OTHER -> seen

\* the instance after a turn g of the generator
turned(self, g) ==
    LET seen == [self EXCEPT !.idx = @ + 1, !.evals = @ \o g.evals]
    IN CASE g.do = "yield" -> [seen EXCEPT !.pc = "Matched", !.result = g.val]
         [] g.do = "raise" -> [seen EXCEPT !.pc = "failed", !.error = g.err]
         [] OTHER -> seen

\* next() takes one more entry from the generator
next_condition(i) ==
    /\ inst[i].pc = "Scanning"
    /\ inst[i].idx < Len(inst[i].entries)
    /\ inst' = [inst EXCEPT ![i] = turned(inst[i], generator_step(Self(i), inst[i].entries[inst[i].idx + 1]))]
    /\ UNCHANGED operator_functions

\* a generator that starts over when it is exhausted
next_default_restart(i) ==
    /\ inst[i].pc = "Scanning"
    /\ inst[i].idx = Len(inst[i].entries)
    /\ inst' = [inst EXCEPT ![i] = [@ EXCEPT !.idx = 0, !.evals = <<>>]]
    /\ UNCHANGED operator_functions

\* the generator is exhausted: next() returns its default
next_default(i) ==
    /\ inst[i].pc = "Scanning"
    /\ inst[i].idx = Len(inst[i].entries)
    /\ inst' = [inst EXCEPT ![i] = [@ EXCEPT !.pc = "Exhausted", !.result = inst[i].default]]
    /\ UNCHANGED operator_functions

\* main: IfElif(**demisto.args()) with an argument that is none of value,
\* conditions and flags: the call of __init__ raises TypeError and no
\* instance is constructed
unexpected_keyword(i, in) ==
    /\ inst[i].pc = "start"
    /\ inst' = [inst EXCEPT ![i] = [@ EXCEPT !.pc = "failed", !.error = "TypeError",
                                              !.value = in.value, !.raw = in.conditions,
                                              !.flags = in.flags, !.variables = in.variables]]
    /\ UNCHANGED operator_functions

\* return_results on whatever the invocation came to, an exception included
return_results_always(i) ==
    /\ Terminal(i)
    /\ inst[i].emitted = <<>>
    /\ inst' = [inst EXCEPT ![i] = [@ EXCEPT !.emitted = Append(@, [kind |-> "results", val |-> inst[i].result])]]
    /\ UNCHANGED operator_functions

\* main: return_results(if_elif.parse_conditions())
return_results(i) ==
    /\ inst[i].pc \in {"Matched", "Exhausted"}
    /\ inst[i].emitted = <<>>
    /\ inst' = [inst EXCEPT ![i] = [@ EXCEPT !.emitted = Append(@, [kind |-> "results", val |-> inst[i].result])]]
    /\ UNCHANGED operator_functions

\* main: except Exception as e: return_error(...)
return_error(i) ==
    /\ inst[i].pc = "failed"
    /\ inst[i].emitted = <<>>
    /\ inst' = [inst EXCEPT ![i] = [@ EXCEPT !.emitted = Append(@, [kind |-> "error", val |-> PyNone])]]
    /\ UNCHANGED operator_functions

\* main has returned: the invocation is over and its instance is dropped
drop(i) ==
    /\ Terminal(i)
    /\ inst[i].emitted # <<>>
    /\ inst' = [inst EXCEPT ![i] = NoInstance]
    /\ UNCHANGED operator_functions

\* invocations one after the other in one process: each constructs its
\* instance, runs to its outcome and is dropped before the next begins
Next ==
    \/ \E in \in Inputs : handle_flags(1, in)
    \/ load_conditions_with_values(1)
    \/ parse_conditions(1)
    \/ next_condition(1)
    \/ next_default(1)
    \/ \E in \in VariablesInputs : unexpected_keyword(1, in)
    \/ return_results(1)
    \/ return_error(1)
    \/ drop(1)

Spec == Init /\ [][Next]_vars

\* the steps of an invocation that has begun: main is straight-line code, so
\* each is followed by the next until main returns
Run(i) ==
    \/ load_conditions_with_values(i)
    \/ parse_conditions(i)
    \/ next_condition(i)
    \/ next_default(i)
    \/ return_results(i)
    \/ return_error(i)

\* invocations one after the other, on the condition lists alone
NextFair ==
    \/ \E in \in ListInputs : handle_flags(1, in)
    \/ load_conditions_with_values(1)
    \/ parse_conditions(1)
    \/ next_condition(1)
    \/ next_default(1)
    \/ \E in \in VariablesInputs : unexpected_keyword(1, in)
    \/ return_results(1)
    \/ return_error(1)
    \/ drop(1)

\* the same invocations without the fairness condition
SpecLists == Init /\ [][NextFair]_vars

\* Run(i) is enabled exactly when the invocation of instance i has begun
\* and main has not emitted its outcome, and a step of NextFair is a step of
\* Run(i) exactly when it changes instance i from such a state
Busy(i) == inst[i].pc # "start" /\ inst[i].emitted = <<>>
Progress(i) == Busy(i) /\ inst'[i] # inst[i]

\* weak fairness of Run(1), WF_vars(Run(1)), with ENABLED <<Run(1)>>_vars
\* written as Busy(1) and <<Run(1)>>_vars as <<Progress(1)>>_vars
SpecFair == Init /\ [][NextFair]_vars /\ ([]<>(~Busy(1)) \/ []<><<Progress(1)>>_vars)

\* instances whose steps interleave in any order
NextConcurrent ==
    \E i \in Instances :
        \/ \E in \in ConcurrentInputs : handle_flags(i, in)
        \/ load_conditions_with_values(i)
        \/ parse_conditions(i)
        \/ next_condition(i)
        \/ next_default(i)
        \/ return_results(i)
        \/ return_error(i)
        \/ drop(i)

SpecConcurrent == Init /\ [][NextConcurrent]_vars

(***************************************************************************)
(* Properties.                                                             *)
(***************************************************************************)
\* instance i has an outcome, or is on its way to one
Constructed(i) == inst[i].pc \in {"constructed", "Scanning", "Matched", "Exhausted", "failed"}
Started(i) == inst[i].pc \in {"Scanning", "Matched", "Exhausted", "failed"}
Outcome(i) == [pc |-> inst[i].pc, result |-> inst[i].result, error |-> inst[i].error]

\* v is a dict with the str key
HasKey(v, key) == v.k = "dict" /\ \E j \in 1..(Len(v.l) \div 2) : v.l[2 * j - 1] = PyStr(key)

\* the outcome of an invocation that is the only one its process ever makes
RECURSIVE ScanAlone(_, _, _, _)
ScanAlone(self, entries, default, idx) ==
    IF idx = Len(entries) THEN [pc |-> "Exhausted", result |-> default, error |-> ""]
    ELSE LET g == generator_step(self, entries[idx + 1])
         IN CASE g.do = "yield" -> [pc |-> "Matched", result |-> g.val, error |-> ""]
              [] g.do = "raise" -> [pc |-> "failed", result |-> PyNone, error |-> g.err]
              [] OTHER -> ScanAlone(self, entries, default, idx + 1)
RunAlone(value, conditions, flags) ==
    LET self == [operator_functions |-> operator_functions_update(operator_functions_class, flags),
                 functions |-> functions_of(flags)]
        r == parse_conditions_start(self, sub(value, conditions, 1))
    IN IF r.ok THEN ScanAlone(self, r.entries, r.default, 0)
       ELSE [pc |-> "failed", result |-> PyNone, error |-> r.err]

\* C1: across any sequence of invocations in one process, the outcome of each
\* invocation is the outcome its own value, conditions text and flags give in
\* a process that makes no other invocation; so an invocation without
\* case_insensitive compares == and != strictly whatever came before it.
C1_OutcomeOfOwnInputs ==
    \A i \in Instances :
        (Terminal(i) /\ inst[i].variables = NoVariables) =>
            Outcome(i) = RunAlone(inst[i].value, inst[i].raw, inst[i].flags)

\* C2: while an instance is between its construction and its outcome, no
\* step of another instance changes the operator table, function table,
\* regex flags or conditions text it reads.
Live(i) == inst[i].pc \in {"handle_flags", "constructed", "Scanning"}
Reads(i) == <<operator_functions, inst[i].functions, inst[i].regex_flags, inst[i].conditions>>
C2_NoInterference ==
    [][\A i \in Instances : (Live(i) /\ inst'[i] = inst[i]) => Reads(i)' = Reads(i)]_vars

\* the outcome of evaluating the condition of an entry on instance i, with
\* the KeyError of an entry that has none
ConditionOutcome(i, entry) ==
    IF HasKey(entry, <<"c", "o", "n", "d", "i", "t", "i", "o", "n">>)
    THEN evaluate_value(Self(i), subscript(entry, <<"c", "o", "n", "d", "i", "t", "i", "o", "n">>).val)
    ELSE Raise("KeyError")
ConditionFalsy(i, entry) == ConditionOutcome(i, entry).ok /\ ~Truthy(ConditionOutcome(i, entry).val)
\* among the outcomes of the conditions, outcome k is the first truthy one
\* and all before it are falsy
FirstTruthy(outcomes, k) ==
    /\ \A j \in 1..k : outcomes[j].ok
    /\ \A j \in 1..(k - 1) : ~Truthy(outcomes[j].val)
    /\ Truthy(outcomes[k].val)

\* C3: when entry k (counted from 1) is the first whose condition is truthy,
\* parse_conditions selects exactly the return value of entry k, and the
\* conditions it evaluates are those of entries 1..k in order, none after k.
C3_FirstMatchWins ==
    \A i \in Instances :
        Started(i) =>
            LET entries == inst[i].entries
                outcomes == [j \in 1..Len(entries) |-> ConditionOutcome(i, entries[j])]
            IN \A k \in 1..Len(entries) :
                   (FirstTruthy(outcomes, k) /\ HasKey(entries[k], <<"r", "e", "t", "u", "r", "n">>)) =>
                       /\ Len(inst[i].evals) <= k
                       /\ \A j \in 1..Len(inst[i].evals) :
                             inst[i].evals[j].expr = subscript(entries[j], <<"c", "o", "n", "d", "i", "t", "i", "o", "n">>).val
                       /\ Terminal(i) =>
                             /\ inst[i].pc = "Matched"
                             /\ inst[i].result = subscript(entries[k], <<"r", "e", "t", "u", "r", "n">>).val
                             /\ Len(inst[i].evals) = k
\* an instance has matched its second entry and a third, whose condition
\* would raise, was left alone
C3_Witness ==
    \E i \in Instances :
        /\ inst[i].pc = "Matched"
        /\ Len(inst[i].evals) = 2
        /\ Len(inst[i].entries) = 3
        /\ ~ConditionOutcome(i, inst[i].entries[3]).ok
        /\ inst[i].result = PyStr(<<"b">>)

\* the value the conditions text of instance i evaluates to
ListOutcome(i) == evaluate(Self(i), inst[i].conditions)

\* C4: when the condition of every entry but the last is falsy, the output
\* is the else value of the last element of the evaluated list, whatever the
\* length of the list, a list of the default entry alone included.
C4_DefaultWhenNoneMatches ==
    \A i \in Instances :
        (Started(i) /\ Terminal(i)) =>
            LET r == ListOutcome(i)
                n == Len(r.val.l)
            IN (r.ok /\ r.val.k = "list" /\ n >= 1 /\ HasKey(r.val.l[n], <<"e", "l", "s", "e">>)
                /\ \A j \in 1..(n - 1) : ConditionFalsy(i, r.val.l[j])) =>
                   /\ inst[i].pc = "Exhausted"
                   /\ inst[i].result = subscript(r.val.l[n], <<"e", "l", "s", "e">>).val
\* the default was selected after MaxEntries falsy conditions
C4_Witness ==
    \E i \in Instances :
        /\ inst[i].pc = "Exhausted"
        /\ Len(inst[i].entries) = MaxEntries
        /\ Len(inst[i].evals) = MaxEntries
        /\ inst[i].result = PyStr(<<"n", "o", "n", "e">>)

\* the condition list of the example of VALUE
ValueExample ==
    <<"[", "{", "\"", "c", "o", "n", "d", "i", "t", "i", "o", "n", "\"", ":", " ", "\"", "V", "A", "L", "U", "E", " ", ">", " ", "1", "0", "\"", ",", " ", "\"", "r", "e", "t", "u", "r", "n", "\"", ":", " ", "\"", "b", "i", "g", "\"", "}", ",", " ", "{", "\"", "c", "o", "n", "d", "i", "t", "i", "o", "n", "\"", ":", " ", "\"", "V", "A", "L", "U", "E", " ", ">", " ", "0", "\"", ",", " ", "\"", "r", "e", "t", "u", "r", "n", "\"", ":", " ", "\"", "s", "m", "a", "l", "l", "\"", "}", ",", " ", "{", "\"", "e", "l", "s", "e", "\"", ":", " ", "\"", "n", "o", "n", "e", "\"", "}", "]">>

\* C5: the identifier VALUE in a condition evaluates to the subject of the
\* invocation: on the example list the subject 15 selects "big" and the
\* subject -5 selects the default "none".
C5_ValueIsTheSubject ==
    \A i \in Instances :
        (Terminal(i) /\ inst[i].raw = ValueExample) =>
            /\ inst[i].value = PyInt(15) => (inst[i].pc = "Matched" /\ inst[i].result = PyStr(<<"b", "i", "g">>))
            /\ inst[i].value = PyInt(0 - 5) => (inst[i].pc = "Exhausted" /\ inst[i].result = PyStr(<<"n", "o", "n", "e">>))

\* the expressions instance i has evaluated as conditions, with their outcomes
Evaluated(i) == {inst[i].evals[n] : n \in 1..Len(inst[i].evals)}
\* the syntax tree of an evaluated expression, NoParse when it has none
TreeOf(e) == IF e.expr.k = "str" THEN ast_parse(e.expr.s) ELSE NoParse
\* the outcomes of the operands of a BoolOp
BoolOperandsOf(i, node) == [j \in 1..Len(node.values) |-> get_value(Self(i), node.values[j])]
\* operand k is the first that decides the BoolOp: for and the first falsy
\* one, for or the first truthy one
Decides(values, k, truthy) ==
    /\ \A j \in 1..k : values[j].ok
    /\ \A j \in 1..(k - 1) : Truthy(values[j].val) # truthy
    /\ Truthy(values[k].val) = truthy
ShortCircuits(values, out, truthy) ==
    \A k \in 1..Len(values) :
        Decides(values, k, truthy) =>
            (out.ok /\ out.val = values[k].val /\ out.log = Logs(values, k))

\* C6: an and expression whose operands are truthy up to a first falsy one
\* has the value of that operand, and no operand after it is evaluated.
C6_AndShortCircuits ==
    \A i \in Instances : \A e \in Evaluated(i) :
        LET t == TreeOf(e)
        IN (t.ok /\ t.node.type = "BoolOp" /\ t.node.op = "And") =>
               ShortCircuits(BoolOperandsOf(i, t.node), e.out, FALSE)

\* C7: an or expression whose operands are falsy up to a first truthy one
\* has the value of that operand, and no operand after it is evaluated.
C7_OrShortCircuits ==
    \A i \in Instances : \A e \in Evaluated(i) :
        LET t == TreeOf(e)
        IN (t.ok /\ t.node.type = "BoolOp" /\ t.node.op = "Or") =>
               ShortCircuits(BoolOperandsOf(i, t.node), e.out, TRUE)

\* the outcomes of the operands of a comparison, the left one at index 0,
\* and of the adjacent pairs, pair j between operands j - 1 and j
CompareOperandsOf(i, node) ==
    [j \in 0..Len(node.ops) |->
        get_value(Self(i), IF j = 0 THEN node.left ELSE node.comparators[j])]
PairsOf(ops, operands) ==
    [j \in 1..Len(ops) |->
        link_value(operator_functions, ops[j], operands[j - 1].val, operands[j].val)]
\* out is the and of the pairs, from left to right
AndOfPairs(pairs, stop, out) ==
    IF stop = {} THEN out.ok /\ out.val = PyBool(TRUE)
    ELSE IF pairs[Least(stop)].ok THEN out.ok /\ out.val = PyBool(FALSE)
    ELSE ~out.ok /\ out.err = pairs[Least(stop)].err
ChainIsAndOfPairs(ops, operands, out) ==
    (\A j \in 0..Len(ops) : operands[j].ok) =>
        AndOfPairs(PairsOf(ops, operands),
                   {j \in 1..Len(ops) : ~PairsOf(ops, operands)[j].ok
                                         \/ ~Truthy(PairsOf(ops, operands)[j].val)},
                   out)

\* C8: a chained comparison whose operands all evaluate is the and, from
\* left to right, of its adjacent pairs, each pair between an operand and the
\* one after it: 1 < 2 < 3 is true as 1 < 2 and 2 < 3 is, 1 < 3 < 2 is false.
C8_ChainIsAndOfAdjacentPairs ==
    \A i \in Instances : \A e \in Evaluated(i) :
        /\ LET t == TreeOf(e)
           IN (t.ok /\ t.node.type = "Compare") =>
                  ChainIsAndOfPairs(t.node.ops, CompareOperandsOf(i, t.node), e.out)
        /\ e.expr = PyStr(<<"1", " ", "<", " ", "2", " ", "<", " ", "3">>) =>
              (e.out.ok /\ e.out.val = PyBool(TRUE)
               /\ e.out.val = evaluate(Self(i), <<"1", " ", "<", " ", "2", " ", "a", "n", "d", " ", "2", " ", "<", " ", "3">>).val)
        /\ e.expr = PyStr(<<"1", " ", "<", " ", "3", " ", "<", " ", "2">>) => (e.out.ok /\ e.out.val = PyBool(FALSE))
\* a chain of two links was evaluated whose first pair holds and whose
\* second does not, while its first and last operands are in order
C8_Witness ==
    \E i \in Instances : \E e \in Evaluated(i) :
        /\ e.expr = PyStr(<<"1", " ", "<", " ", "3", " ", "<", " ", "2">>)
        /\ e.out = [ok |-> TRUE, val |-> PyBool(FALSE), err |-> "", log |-> <<<<"1">>, <<"3">>, <<"2">>>>]

\* x == y under the flags: the lowercased representations with
\* case_insensitive, the values without
SameUnder(flags, x, y) ==
    IF "case_insensitive" \in flags THEN Lower(Repr(x)) = Lower(Repr(y)) ELSE PyEq(x, y)
EqIs(op, operands, flags, out) ==
    (operands[0].ok /\ operands[1].ok) =>
        /\ out.ok
        /\ out.val = PyBool((op = "Eq") = SameUnder(flags, operands[0].val, operands[1].val))

\* C9: with case_insensitive, == holds exactly when the lowercased Python
\* representations of the operands are equal and != is its negation, so
\* 'ABC' == 'abc' is true; without the flag both compare strictly.
C9_EqFollowsTheFlag ==
    \A i \in Instances : \A e \in Evaluated(i) :
        LET t == TreeOf(e)
        IN (t.ok /\ t.node.type = "Compare" /\ t.node.ops \in {<<"Eq">>, <<"NotEq">>}) =>
               EqIs(t.node.ops[1], CompareOperandsOf(i, t.node), inst[i].flags, e.out)

\* a value *conditions, default = ... and default['else'] cannot take
IllShaped(v) == v.k # "list" \/ v.l = <<>> \/ ~HasKey(v.l[Len(v.l)], <<"e", "l", "s", "e">>)

\* C10: when the conditions text evaluates to an empty list, to something
\* that is not a list, or to a list whose last element has no else key,
\* parse_conditions fails: it selects nothing and evaluates no condition,
\* also when an earlier entry has a truthy condition.
C10_IllShapedListFails ==
    \A i \in Instances :
        Started(i) =>
            LET r == ListOutcome(i)
            IN (r.ok /\ IllShaped(r.val)) =>
                   /\ inst[i].pc = "failed"
                   /\ inst[i].error \in {"ValueError", "TypeError", "KeyError"}
                   /\ inst[i].result = PyNone
                   /\ inst[i].evals = <<>>
\* parse_conditions failed on a list whose first entry has a truthy
\* condition and whose last element has no else key
C10_Witness ==
    \E i \in Instances :
        /\ inst[i].raw = <<"[", "{", "\"", "c", "o", "n", "d", "i", "t", "i", "o", "n", "\"", ":", " ", "\"", "t", "r", "u", "e", "\"", ",", " ", "\"", "r", "e", "t", "u", "r", "n", "\"", ":", " ", "\"", "a", "\"", "}", ",", " ", "{", "\"", "d", "e", "f", "a", "u", "l", "t", "\"", ":", " ", "1", "}", "]">>
        /\ inst[i].pc = "failed"
        /\ inst[i].error = "KeyError"

\* an element that has neither a condition key nor a return key
LacksBoth(v) == ~HasKey(v, <<"c", "o", "n", "d", "i", "t", "i", "o", "n">>) /\ ~HasKey(v, <<"r", "e", "t", "u", "r", "n">>)

\* C11: when an element of the evaluated list other than the last has
\* neither a condition nor a return key, parse_conditions fails, wherever
\* the element is and whatever the conditions of the other entries give.
C11_MalformedEntryFails ==
    \A i \in Instances :
        (Started(i) /\ Terminal(i) /\ inst[i].variables = NoVariables) =>
            LET r == ListOutcome(i)
            IN (r.ok /\ r.val.k = "list"
                /\ \E j \in 1..(Len(r.val.l) - 1) : LacksBoth(r.val.l[j])) =>
                   inst[i].pc = "failed"

\* the nodes of a syntax tree: the node and the nodes of its sub-expressions
RECURSIVE Nodes(_)
Nodes(node) ==
    LET of(children) == UNION {Nodes(children[j]) : j \in 1..Len(children)}
    IN {node} \cup
       CASE node.type \in {"List", "Tuple"} -> of(node.elts)
         [] node.type = "Dict" -> of(node.keys) \cup of(node.values)
         [] node.type = "Attribute" -> Nodes(node.value)
         [] node.type = "Call" ->
               Nodes(node.func) \cup of(node.args)
               \cup UNION {Nodes(node.keywords[j].value) : j \in 1..Len(node.keywords)}
         [] node.type = "Compare" -> Nodes(node.left) \cup of(node.comparators)
         [] node.type = "BoolOp" -> of(node.values)
         [] node.type = "UnaryOp" -> Nodes(node.operand)
         [] node.type = "BinOp" -> Nodes(node.left) \cup Nodes(node.right)
         [] OTHER -> {}

\* a call of a name that instance i has no function for
UnknownCall(i, node) ==
    node.type = "Call" /\ node.func.type = "Name" /\ node.func.id \notin DOMAIN inst[i].functions

\* C12: evaluating a call of a name that is not in self.functions raises
\* KeyError, which is not the SyntaxError that text which cannot be parsed
\* and expressions get_value has no case for raise; it yields no value, and
\* an invocation whose condition is such a call fails with that KeyError.
C12_UnknownFunctionIsKeyError ==
    \A i \in Instances : \A e \in Evaluated(i) :
        LET t == TreeOf(e)
        IN t.ok =>
              /\ \A n \in Nodes(t.node) :
                    UnknownCall(i, n) =>
                        /\ ~get_value(Self(i), n).ok
                        /\ get_value(Self(i), n).err = "KeyError"
                        /\ get_value(Self(i), n).err # evaluate(Self(i), <<"1", " ", "+">>).err
                        /\ get_value(Self(i), n).err # evaluate(Self(i), <<"1", " ", "+", " ", "2">>).err
              /\ UnknownCall(i, t.node) =>
                    /\ e.out = Raise("KeyError")
                    /\ inst[i].pc = "failed"
                    /\ inst[i].error = "KeyError"
\* the condition unknown_fn(1,2) was evaluated and the invocation failed
\* with KeyError
C12_Witness ==
    \E i \in Instances :
        /\ inst[i].pc = "failed"
        /\ inst[i].error = "KeyError"
        /\ Len(inst[i].evals) = 1
        /\ inst[i].evals[1].expr = PyStr(<<"u", "n", "k", "n", "o", "w", "n", "_", "f", "n", "(", "1", ",", "2", ")">>)
        /\ ~inst[i].evals[1].out.ok

\* C13: the identifiers true, false and null resolve to True, False and
\* None, and every other identifier, the name VALUE of the subject apart,
\* raises and resolves to no value.
C13_OnlyBuiltinsResolve ==
    \A i \in Instances : \A e \in Evaluated(i) :
        LET t == TreeOf(e)
        IN (t.ok /\ t.node.type = "Name") =>
              CASE t.node.id = <<"t", "r", "u", "e">> -> e.out.ok /\ e.out.val = PyBool(TRUE)
                [] t.node.id = <<"f", "a", "l", "s", "e">> -> e.out.ok /\ e.out.val = PyBool(FALSE)
                [] t.node.id = <<"n", "u", "l", "l">> -> e.out.ok /\ e.out.val = PyNone
                [] t.node.id = <<"V", "A", "L", "U", "E">> -> TRUE
                [] OTHER -> ~e.out.ok

\* C14: an invocation with a variables block binds each key for the
\* conditions: with x = 5 the condition x == 5 holds, with z = true the
\* condition z holds, and with w = foo-bar the condition w == 'foo-bar'
\* holds, so each invocation of VariablesInputs selects the return value of
\* its entry.
C14_VariablesAreBound ==
    \A i \in Instances :
        (Terminal(i) /\ inst[i].variables # NoVariables) =>
            /\ inst[i].pc = "Matched"
            /\ inst[i].result = PyStr(<<"r", "1">>)

\* what main has emitted for instance i is at most one outcome: the
\* selected value after parse_conditions returned it, an error after an
\* exception
OneOutcome(i) ==
    /\ Len(inst[i].emitted) <= 1
    /\ \A n \in 1..Len(inst[i].emitted) :
          IF inst[i].emitted[n].kind = "results"
          THEN /\ inst[i].pc \in {"Matched", "Exhausted"}
               /\ inst[i].error = ""
               /\ inst[i].emitted[n].val = inst[i].result
          ELSE inst[i].pc = "failed" /\ inst[i].error # ""

\* C15: every invocation of main emits exactly one outcome, a selected value
\* by return_results or a failure by return_error, never both and never
\* neither, and after an exception no selected value is emitted.
C15_ExactlyOneOutcome ==
    /\ [](\A i \in Instances : OneOutcome(i))
    /\ \A i \in Instances : (inst[i].pc # "start") ~> (Len(inst[i].emitted) = 1)
\* an exception of the evaluation of a condition was reported by return_error
C15_Witness ==
    \E i \in Instances :
        /\ inst[i].pc = "failed"
        /\ Len(inst[i].evals) >= 1
        /\ inst[i].emitted = <<[kind |-> "error", val |-> PyNone]>>

\* the state of the generator of instance i and of the next() that drives it
Selector(i) ==
    <<inst[i].pc, inst[i].entries, inst[i].default, inst[i].idx, inst[i].evals,
      inst[i].result, inst[i].error>>
\* the conditions instance i found truthy
Yielded(i) == {n \in 1..Len(inst[i].evals) : inst[i].evals[n].out.ok /\ Truthy(inst[i].evals[n].out.val)}

\* C16: next() started on the first entry of a list reaches Matched,
\* Exhausted or failed; once there the selector takes no step until the
\* instance is dropped; in Matched exactly one entry, the last one looked
\* at, has yielded and its value is the result, in Exhausted none has and
\* the result is the default.
C16_SelectorTerminates ==
    /\ \A i \in Instances : (inst[i].pc = "Scanning" /\ inst[i].idx = 0) ~> Terminal(i)
    /\ [][\A i \in Instances :
             Terminal(i) => (Selector(i)' = Selector(i) \/ inst'[i] = NoInstance)]_vars
    /\ [](\A i \in Instances :
             /\ inst[i].pc = "Matched" =>
                   /\ Yielded(i) = {inst[i].idx}
                   /\ inst[i].result = subscript(inst[i].entries[inst[i].idx], <<"r", "e", "t", "u", "r", "n">>).val
                   /\ inst[i].error = ""
             /\ inst[i].pc = "Exhausted" =>
                   /\ Yielded(i) = {}
                   /\ inst[i].idx = Len(inst[i].entries)
                   /\ inst[i].result = inst[i].default
                   /\ inst[i].error = "")
\* the selector went through MaxEntries entries, none of them truthy, and
\* is Exhausted
C16_Witness ==
    \E i \in Instances :
        /\ inst[i].pc = "Exhausted"
        /\ inst[i].idx = MaxEntries
        /\ Len(inst[i].evals) = MaxEntries

\* a construct outside the supported subset: arithmetic, a tuple, attribute
\* access, is and is not, unary plus, keyword arguments of a call
Unsupported(node) ==
    \/ node.type \in {"BinOp", "Tuple", "Attribute"}
    \/ node.type = "Compare" /\ \E j \in 1..Len(node.ops) : node.ops[j] \in {"Is", "IsNot"}
    \/ node.type = "UnaryOp" /\ node.op = "UAdd"
    \/ node.type = "Call" /\ node.keywords # <<>>

\* C17: evaluating an expression that has a construct outside the supported
\* subset anywhere in it raises the SyntaxError of evaluate and yields no
\* value.
C17_UnsupportedIsSyntaxError ==
    \A i \in Instances : \A e \in Evaluated(i) :
        LET t == TreeOf(e)
        IN (t.ok /\ \E n \in Nodes(t.node) : Unsupported(n)) =>
               (~e.out.ok /\ e.out.err = "SyntaxError")

\* bit b, a power of two, is set in mask
BitSet(mask, b) == (mask \div b) % 2 = 1

\* C18: for every subset of the flag tokens, the regex_match that
\* handle_flags binds matches the full string exactly when regex_full_match
\* is among the flags and searches otherwise, and its flags have the
\* DOTALL, MULTILINE and IGNORECASE bits set exactly when regex_dot_all,
\* regex_multiline and case_insensitive are among them; so 'b' is found in
\* 'abc' exactly without regex_full_match, and 'B' matches 'b' exactly with
\* case_insensitive.
C18_RegexMatchFollowsFlags ==
    \A i \in Instances :
        /\ (inst[i].pc # "start" /\ inst[i].variables = NoVariables) =>
              LET f == inst[i].functions[<<"r", "e", "g", "e", "x", "_", "m", "a", "t", "c", "h">>]
              IN /\ f.fn = IF "regex_full_match" \in inst[i].flags THEN "fullmatch" ELSE "search"
                 /\ f.flags = inst[i].regex_flags
                 /\ f.flags \in 0..(re_DOTALL + re_MULTILINE + re_IGNORECASE)
                 /\ BitSet(f.flags, re_DOTALL) <=> "regex_dot_all" \in inst[i].flags
                 /\ BitSet(f.flags, re_MULTILINE) <=> "regex_multiline" \in inst[i].flags
                 /\ BitSet(f.flags, re_IGNORECASE) <=> "case_insensitive" \in inst[i].flags
        /\ \A e \in Evaluated(i) :
              /\ e.expr = PyStr(<<"r", "e", "g", "e", "x", "_", "m", "a", "t", "c", "h", "(", "'", "b", "'", ",", " ", "'", "a", "b", "c", "'", ")">>) =>
                    (e.out.ok /\ (Truthy(e.out.val) <=> "regex_full_match" \notin inst[i].flags))
              /\ e.expr = PyStr(<<"r", "e", "g", "e", "x", "_", "m", "a", "t", "c", "h", "(", "'", "B", "'", ",", " ", "'", "b", "'", ")">>) =>
                    (e.out.ok /\ (Truthy(e.out.val) <=> "case_insensitive" \in inst[i].flags))
              /\ e.expr = PyStr(<<"r", "e", "g", "e", "x", "_", "m", "a", "t", "c", "h", "(", "'", "a", "b", "c", "'", ",", " ", "'", "a", "b", "c", "'", ")">>) => (e.out.ok /\ Truthy(e.out.val))
\* with all four flags, 'B' matched the whole of 'b'
C18_Witness ==
    \E i \in Instances :
        /\ inst[i].flags = FlagTokens
        /\ inst[i].pc = "Matched"
        /\ inst[i].evals[1].expr = PyStr(<<"r", "e", "g", "e", "x", "_", "m", "a", "t", "c", "h", "(", "'", "B", "'", ",", " ", "'", "b", "'", ")">>)
        /\ inst[i].evals[1].out.val = PyMatch(0, <<"b">>)

\* C19: in a chained comparison every operand is evaluated, also after a
\* link that is false, so that the comparison raises whenever one of its
\* operands does.
C19_EveryOperandEvaluated ==
    \A i \in Instances : \A e \in Evaluated(i) :
        LET t == TreeOf(e)
        IN (t.ok /\ t.node.type = "Compare"
            /\ \E j \in 0..Len(t.node.ops) : ~CompareOperandsOf(i, t.node)[j].ok) =>
               ~e.out.ok

\* the logs of operands 0..m of a comparison, one after the other
RECURSIVE OperandLogs(_, _)
OperandLogs(operands, m) ==
    IF m = 0 THEN operands[0].log ELSE OperandLogs(operands, m - 1) \o operands[m].log
InOrderOnce(ops, operands, out) ==
    /\ \E m \in 0..Len(ops) : out.log = OperandLogs(operands, m)
    /\ ChainIsAndOfPairs(ops, operands, out)

\* C20: in a chained comparison of operators of the table the operands are
\* evaluated from left to right, each at most once and none skipped, and
\* link i is applied to the values of operand i - 1 and operand i, never to
\* the leftmost operand again.
C20_OperandsInOrderOnce ==
    \A i \in Instances : \A e \in Evaluated(i) :
        LET t == TreeOf(e)
        IN (t.ok /\ t.node.type = "Compare"
            /\ \A j \in 1..Len(t.node.ops) : t.node.ops[j] \in DOMAIN operator_functions) =>
               InOrderOnce(t.node.ops, CompareOperandsOf(i, t.node), e.out)
\* 1 < 2 == 2 was evaluated: three operands, each once, the second link
\* between 2 and 2
C20_Witness ==
    \E i \in Instances : \E e \in Evaluated(i) :
        /\ e.expr = PyStr(<<"1", " ", "<", " ", "2", " ", "=", "=", " ", "2">>)
        /\ e.out = [ok |-> TRUE, val |-> PyBool(TRUE), err |-> "", log |-> <<<<"1">>, <<"2">>, <<"2">>>>]
\* the operand reduce ends on when no operand raises: the first falsy one
\* for and, the first truthy one for or, the last one when there is none
DecidingOperand(values, truthy) ==
    Least({k \in 1..Len(values) : Truthy(values[k].val) = truthy} \cup {Len(values)})

\* C21: when all operands evaluate without error, and over two or more
\* operands has the value of the first falsy operand, or of the last operand
\* when none is falsy, and or has the value of the first truthy operand, or
\* of the last when none is truthy: the value of that operand itself, not
\* its truth value.
C21_BoolOpReturnsOperand ==
    \A i \in Instances : \A e \in Evaluated(i) :
        LET t == TreeOf(e)
        IN (t.ok /\ t.node.type = "BoolOp" /\ t.node.op \in {"And", "Or"}) =>
              LET values == BoolOperandsOf(i, t.node)
              IN (Len(values) >= 2 /\ \A j \in 1..Len(values) : values[j].ok) =>
                     /\ e.out.ok
                     /\ e.out.val = values[DecidingOperand(values, t.node.op = "Or")].val
\* 0 or '' or [] was evaluated to the empty list, its last operand, which
\* is falsy, and the invocation went on to its default
C21_Witness ==
    \E i \in Instances : \E e \in Evaluated(i) :
        /\ e.expr = PyStr(<<"0", " ", "o", "r", " ", "'", "'", " ", "o", "r", " ", "[", "]">>)
        /\ e.out.ok
        /\ e.out.val = PyList(<<>>)
        /\ inst[i].pc = "Exhausted"
\* the } that ends a #{...} segment opening at index o of text: the nearest
\* one with at least one character before it, 0 when o opens no segment
CloseOf(text, o) ==
    IF StartsAt(text, o, <<"#", "{">>) /\ \E c \in (o + 3)..Len(text) : text[c] = "}"
    THEN Least({c \in (o + 3)..Len(text) : text[c] = "}"})
    ELSE 0
\* where the #{...} segments of text open: every opening that is not inside
\* a segment that opens before it
Segments(text) ==
    LET opens == {o \in 1..Len(text) : CloseOf(text, o) # 0}
    IN CHOOSE S \in SUBSET opens :
           \A o \in opens : o \in S <=> ~\E q \in S : q < o /\ o <= CloseOf(text, q)
\* text from index from on, with each segment of S replaced by the printed
\* representation of the lookup of its expression in value
RECURSIVE Spliced(_, _, _, _)
Spliced(text, value, S, from) ==
    IF S = {} THEN SubSeq(text, from, Len(text))
    ELSE SubSeq(text, from, Least(S) - 1)
         \o Repr(dt(value, SubSeq(text, Least(S) + 2, CloseOf(text, Least(S)) - 1)))
         \o Spliced(text, value, S \ {Least(S)}, CloseOf(text, Least(S)) + 1)
Substituted(i) == Spliced(inst[i].raw, inst[i].value, Segments(inst[i].raw), 1)
\* instance i has parsed text: its entries and default are those text
\* evaluates to, or it failed as the evaluation of text does
HasParsed(i, r) ==
    IF r.ok THEN inst[i].entries = r.entries /\ inst[i].default = r.default
    ELSE inst[i].pc = "failed" /\ inst[i].error = r.err /\ inst[i].entries = <<>> /\ inst[i].evals = <<>>

\* C22: the #{expr} pass runs exactly once, in the constructor and before
\* anything is parsed: the conditions text of a constructed instance is the
\* raw text with every #{expr} segment replaced by the printed
\* representation of the lookup of expr in the value, a replacement is not
\* scanned again, the text is written by no later step, and what
\* parse_conditions parses is that text.
C22_TemplatingRunsOnce ==
    /\ [](\A i \in Instances :
             /\ inst[i].pc \in {"start", "handle_flags"} =>
                   (inst[i].conditions = <<>> /\ inst[i].entries = <<>> /\ inst[i].evals = <<>>)
             /\ (Constructed(i) /\ inst[i].variables = NoVariables) =>
                   inst[i].conditions = Substituted(i)
             /\ (Started(i) /\ inst[i].variables = NoVariables) =>
                   HasParsed(i, parse_conditions_start(Self(i), Substituted(i))))
    /\ [][\A i \in Instances :
             inst'[i].conditions # inst[i].conditions =>
                 \/ inst[i].pc = "handle_flags" /\ inst'[i].pc = "constructed"
                 \/ inst'[i] = NoInstance]_vars
\* the value '#{.}' was spliced into the condition #{.} != 1 as '#{.}': the
\* substituted text still holds a #{.}, which was left alone, and the
\* condition held
C22_Witness ==
    \E i \in Instances :
        /\ inst[i].value = PyStr(<<"#", "{", ".", "}">>)
        /\ inst[i].raw = ListText(<<<<"#", "{", ".", "}", " ", "!", "=", " ", "1">>>>)
        /\ inst[i].conditions = ListText(<<<<"'", "#", "{", ".", "}", "'", " ", "!", "=", " ", "1">>>>)
        /\ inst[i].conditions # inst[i].raw
        /\ inst[i].pc = "Matched"
        /\ inst[i].result = PyStr(<<"r", "1">>)
\* the step constructs instance i: __init__ calls handle_flags, then
\* load_conditions_with_values
InHandleFlags(i) == inst[i].pc = "start" /\ inst'[i].pc = "handle_flags"
InLoadConditions(i) == inst[i].pc = "handle_flags" /\ inst'[i].pc = "constructed"

\* C23: a step of a constructed instance, of parse_conditions, evaluate and
\* get_value, leaves the regex flags, function table, operator table and
\* substituted conditions text of the instance as they are; the operator
\* table, the regex flags and the function table are written by handle_flags
\* alone and the conditions text by load_conditions_with_values alone, each
\* once in the construction of an instance.
C23_ReadOnlyAfterConstruction ==
    [][/\ \A i \in Instances :
             (Constructed(i) /\ inst'[i] # inst[i] /\ inst'[i] # NoInstance) => Reads(i)' = Reads(i)
       /\ operator_functions' # operator_functions => \E i \in Instances : InHandleFlags(i)
       /\ \A i \in Instances :
             /\ <<inst[i].regex_flags, inst[i].functions>>' # <<inst[i].regex_flags, inst[i].functions>> =>
                   (InHandleFlags(i) \/ inst'[i] = NoInstance)
             /\ inst'[i].conditions # inst[i].conditions =>
                   (InLoadConditions(i) \/ inst'[i] = NoInstance)]_vars
\* an instance with case_insensitive has evaluated its condition and
\* matched, and its tables and text are still those its constructor wrote
C23_Witness ==
    \E i \in Instances :
        /\ inst[i].pc = "Matched"
        /\ Len(inst[i].evals) = 1
        /\ inst[i].flags = {"case_insensitive"}
        /\ inst[i].regex_flags = re_IGNORECASE
        /\ inst[i].functions = functions_of(inst[i].flags)
        /\ operator_functions["Eq"] = "eq"
        /\ inst[i].conditions = Substituted(i)
        /\ inst[i].conditions # <<>>
\* the kinds Python orders among themselves: numbers with numbers, strings
\* with strings, lists with lists
KindOf(v) == IF IsNumber(v) THEN "number" ELSE v.k
\* an ordering between operands of different kinds, or a membership test in
\* something that is no list, string or dict
IllTyped(op, x, y) ==
    \/ op \in {"Lt", "LtE", "Gt", "GtE"} /\ KindOf(x) # KindOf(y)
    \/ op \in {"In", "NotIn"} /\ y.k \notin {"list", "str", "dict"}
\* link j of a comparison is applied: the operands up to it evaluate and
\* every link before it is truthy
Applied(ops, operands, j) ==
    /\ \A m \in 0..j : operands[m].ok
    /\ \A m \in 1..(j - 1) :
          LET pair == link_value(operator_functions, ops[m], operands[m - 1].val, operands[m].val)
          IN pair.ok /\ Truthy(pair.val)

\* C24: an ordering operator applied to operands of different kinds, or a
\* membership operator applied to a right operand that is no list, string or
\* dict, makes the comparison raise TypeError, and with it the invocation
\* that evaluates it as a condition fail; it never yields a value.
C24_IllTypedOperandsRaise ==
    \A i \in Instances : \A n \in 1..Len(inst[i].evals) :
        LET e == inst[i].evals[n]
            t == TreeOf(e)
        IN (t.ok /\ t.node.type = "Compare") =>
              LET operands == CompareOperandsOf(i, t.node)
              IN \A j \in 1..Len(t.node.ops) :
                     (Applied(t.node.ops, operands, j)
                      /\ IllTyped(t.node.ops[j], operands[j - 1].val, operands[j].val)) =>
                         /\ ~e.out.ok
                         /\ e.out.err = "TypeError"
                         /\ n = Len(inst[i].evals)
                         /\ inst[i].pc = "failed"
                         /\ inst[i].error = "TypeError"
                         /\ inst[i].result = PyNone
\* 1 < 2 < 'a' was evaluated: its first link holds, its second is between a
\* number and a string, and the invocation failed with TypeError
C24_Witness ==
    \E i \in Instances :
        /\ inst[i].pc = "failed"
        /\ inst[i].error = "TypeError"
        /\ Len(inst[i].evals) = 1
        /\ inst[i].evals[1].expr = PyStr(<<"1", " ", "<", " ", "2", " ", "<", " ", "'", "a", "'">>)
        /\ inst[i].evals[1].out.err = "TypeError"
        /\ inst[i].evals[1].out.log = <<<<"1">>, <<"2">>, <<"'", "a", "'">>>>
\* y is the numeric negation of the number x: an int for an int or a bool,
\* a float for a float, of the opposite sign
Negation(x, y) ==
    /\ y.k = (IF x.k = "float" THEN "float" ELSE "int")
    /\ CASE x.s = <<>> -> y.s = <<>> /\ x.n + y.n = 0
         [] x.s = <<"i", "n", "f">> -> y.s = <<"-", "i", "n", "f">>
         [] x.s = <<"-", "i", "n", "f">> -> y.s = <<"i", "n", "f">>
         [] OTHER -> y.s = x.s

\* C25: not of any value is the boolean True when the value is falsy and
\* the boolean False when it is truthy; unary minus of a number is its
\* numeric negation, and unary minus of a string, None, a list or a dict
\* raises TypeError.
C25_UnaryOperators ==
    \A i \in Instances : \A e \in Evaluated(i) :
        LET t == TreeOf(e)
        IN (t.ok /\ t.node.type = "UnaryOp") =>
              LET operand == get_value(Self(i), t.node.operand)
              IN operand.ok =>
                    /\ t.node.op = "Not" =>
                          (e.out.ok /\ e.out.val = PyBool(~Truthy(operand.val)))
                    /\ (t.node.op = "USub" /\ IsNumber(operand.val)) =>
                          (e.out.ok /\ Negation(operand.val, e.out.val))
                    /\ (t.node.op = "USub" /\ operand.val.k \in {"str", "None", "list", "dict"}) =>
                          (~e.out.ok /\ e.out.err = "TypeError")
\* -true was evaluated to the int -1, which is truthy, and the invocation
\* matched
C25_Witness ==
    \E i \in Instances : \E e \in Evaluated(i) :
        /\ e.expr = PyStr(<<"-", "t", "r", "u", "e">>)
        /\ e.out.ok
        /\ e.out.val = PyInt(0 - 1)
        /\ inst[i].pc = "Matched"
\* the outcomes of the elements of a list expression
ElementsOf(i, node) == [j \in 1..Len(node.elts) |-> get_value(Self(i), node.elts[j])]

\* C26: parse_conditions evaluates the whole list expression, the return
\* expression of every entry and the else expression included, before it
\* tests the first condition: when the expression of any element raises,
\* the invocation fails with that exception and no condition is tested,
\* also when an entry before that element has a truthy condition.
C26_WholeListEvaluatedFirst ==
    \A i \in Instances :
        (Started(i) /\ inst[i].variables = NoVariables) =>
            LET t == ast_parse(inst[i].conditions)
            IN (t.ok /\ t.node.type = "List") =>
                  LET items == ElementsOf(i, t.node)
                  IN IF \E j \in 1..Len(items) : ~items[j].ok
                     THEN /\ inst[i].pc = "failed"
                          /\ inst[i].error = items[FirstRaise(items)].err
                          /\ inst[i].evals = <<>>
                          /\ inst[i].result = PyNone
                     ELSE inst[i].evals # <<>> =>
                             \A j \in 1..Len(inst[i].entries) : inst[i].entries[j] = items[j].val
\* the first entry has the condition true and the return value "a", the
\* return expression of the second, whose condition is false, raises, and
\* the invocation failed without testing a condition
C26_Witness ==
    \E i \in Instances :
        /\ inst[i].raw = <<"[", "{", "\"", "c", "o", "n", "d", "i", "t", "i", "o", "n", "\"", ":", " ", "\"", "t", "r", "u", "e", "\"", ",", " ", "\"", "r", "e", "t", "u", "r", "n", "\"", ":", " ", "\"", "a", "\"", "}", ",", " ", "{", "\"", "c", "o", "n", "d", "i", "t", "i", "o", "n", "\"", ":", " ", "\"", "f", "a", "l", "s", "e", "\"", ",", " ", "\"", "r", "e", "t", "u", "r", "n", "\"", ":", " ", "u", "n", "d", "e", "f", "i", "n", "e", "d", "_", "n", "a", "m", "e", "}", ",", " ", "{", "\"", "e", "l", "s", "e", "\"", ":", " ", "1", "}", "]">>
        /\ inst[i].pc = "failed"
        /\ inst[i].error = "JSONDecodeError"
        /\ inst[i].evals = <<>>
\* the conditions instance i has evaluated are those of its first entries,
\* one evaluation for each in the order of the list, and all but the last
\* were found falsy
InListOrder(i) ==
    /\ Len(inst[i].evals) <= Len(inst[i].entries)
    /\ Len(inst[i].evals) <= inst[i].idx
    /\ \A n \in 1..Len(inst[i].evals) :
          /\ inst[i].evals[n].expr = subscript(inst[i].entries[n], <<"c", "o", "n", "d", "i", "t", "i", "o", "n">>).val
          /\ inst[i].evals[n].out = ConditionOutcome(i, inst[i].entries[n])
          /\ n < Len(inst[i].evals) =>
                (inst[i].evals[n].out.ok /\ ~Truthy(inst[i].evals[n].out.val))

\* C27: within one run of parse_conditions the conditions are evaluated in
\* strictly increasing order of their index in the list and each at most
\* once: the n-th evaluation is that of the entry at index n, it is made
\* only after every condition before it was evaluated and found falsy, and
\* an evaluation once made is never made again.
C27_ConditionsInListOrder ==
    /\ [](\A i \in Instances : (Started(i) /\ inst[i].variables = NoVariables) => InListOrder(i))
    /\ [][\A i \in Instances :
             inst'[i] # NoInstance =>
                 \/ inst'[i].evals = inst[i].evals
                 \/ /\ Len(inst'[i].evals) = Len(inst[i].evals) + 1
                    /\ SubSeq(inst'[i].evals, 1, Len(inst[i].evals)) = inst[i].evals
                    /\ inst'[i].idx = inst[i].idx + 1]_vars
\* on the value -5 the conditions false and #{.} > 10 were evaluated, in
\* this order and once each, and the default was selected
C27_Witness ==
    \E i \in Instances :
        /\ inst[i].pc = "Exhausted"
        /\ Len(inst[i].entries) = 2
        /\ Len(inst[i].evals) = 2
        /\ inst[i].evals[1].expr = PyStr(<<"f", "a", "l", "s", "e">>)
        /\ inst[i].evals[2].expr = PyStr(<<"-", "5", " ", ">", " ", "1", "0">>)
        /\ inst[i].evals[2].out.val = PyBool(FALSE)
\* the first condition that raises, with every condition before it falsy
FirstRaises(outcomes, k) ==
    /\ \A j \in 1..(k - 1) : outcomes[j].ok /\ ~Truthy(outcomes[j].val)
    /\ ~outcomes[k].ok

\* C28: when the evaluation of the condition of entry k raises while every
\* condition before it is falsy, parse_conditions fails with that
\* exception: no value is selected, neither that of an entry nor the
\* default, and no condition after entry k is evaluated, also when the
\* condition of a later entry is truthy.
C28_RaisingConditionFails ==
    \A i \in Instances :
        (Started(i) /\ Terminal(i)) =>
            LET entries == inst[i].entries
                outcomes == [j \in 1..Len(entries) |-> ConditionOutcome(i, entries[j])]
            IN \A k \in 1..Len(entries) :
                   (FirstRaises(outcomes, k) /\ HasKey(entries[k], <<"c", "o", "n", "d", "i", "t", "i", "o", "n">>)) =>
                       /\ inst[i].pc = "failed"
                       /\ inst[i].error = outcomes[k].err
                       /\ inst[i].result = PyNone
                       /\ inst[i].idx = k
                       /\ Len(inst[i].evals) = k
                       /\ inst[i].evals[k].out = outcomes[k]
\* the condition of the first of two entries raised, that of the second is
\* true, and the invocation failed after the one evaluation
C28_Witness ==
    \E i \in Instances :
        /\ inst[i].pc = "failed"
        /\ Len(inst[i].entries) = 2
        /\ Len(inst[i].evals) = 1
        /\ inst[i].evals[1].expr = PyStr(<<"u", "n", "d", "e", "f", "i", "n", "e", "d", "_", "n", "a", "m", "e">>)
        /\ inst[i].error = "JSONDecodeError"
        /\ ConditionOutcome(i, inst[i].entries[2]).ok
        /\ Truthy(ConditionOutcome(i, inst[i].entries[2]).val)
\* the operand values of an evaluated x == y of an instance with
\* case_insensitive, <<>> for any other expression
FlaggedEq(i, e) ==
    LET t == TreeOf(e)
    IN IF t.ok /\ t.node.type = "Compare" /\ t.node.ops = <<"Eq">>
          /\ "case_insensitive" \in inst[i].flags
          /\ \A j \in 0..1 : CompareOperandsOf(i, t.node)[j].ok
       THEN <<CompareOperandsOf(i, t.node)[0].val, CompareOperandsOf(i, t.node)[1].val>>
       ELSE <<>>
\* x and y are of one kind among None, bool, int and str
SameScalarKind(x, y) == x.k = y.k /\ x.k \in {"None", "bool", "int", "str"}

\* C29 as claimed: equality under case_insensitive is a coarsening of strict
\* equality: whenever x == y holds without the flag it holds with the flag,
\* for values of every kind, the int 1 and the float 1.0 or true and 1
\* included.
C29_FlagCoarsensEquality ==
    \A i \in Instances : \A e \in Evaluated(i) :
        LET xy == FlaggedEq(i, e)
        IN (xy # <<>> /\ PyEq(xy[1], xy[2])) => (e.out.ok /\ e.out.val = PyBool(TRUE))

\* C29 as amended: for x and y of the same kind among None, booleans,
\* integers and strings, x == y holds with case_insensitive whenever it
\* holds without it; the int 1 and the float 1.0, and true and 1, are equal
\* without the flag and unequal with it.
C29_FlagCoarsensOnScalars ==
    \A i \in Instances : \A e \in Evaluated(i) :
        LET xy == FlaggedEq(i, e)
        IN /\ (xy # <<>> /\ PyEq(xy[1], xy[2]) /\ SameScalarKind(xy[1], xy[2])) =>
                  (e.out.ok /\ e.out.val = PyBool(TRUE))
           /\ (xy \in {<<PyInt(1), PyFloat(1)>>, <<PyBool(TRUE), PyInt(1)>>}) =>
                  (PyEq(xy[1], xy[2]) /\ e.out.ok /\ e.out.val = PyBool(FALSE))
\* with case_insensitive, null == null was evaluated to True, as it is
\* without the flag, and the invocation matched
C29_Witness ==
    \E i \in Instances : \E e \in Evaluated(i) :
        /\ "case_insensitive" \in inst[i].flags
        /\ e.expr = PyStr(<<"n", "u", "l", "l", " ", "=", "=", " ", "n", "u", "l", "l">>)
        /\ FlaggedEq(i, e) = <<PyNone, PyNone>>
        /\ e.out.val = PyBool(TRUE)
        /\ inst[i].pc = "Matched"
\* C30: a comparison of one or more operators that evaluates without error
\* has the value True or False, a bool, whatever its operands and operators
\* are: as a condition and as a part of one, it is never the value of an
\* operand nor a match object.
C30_CompareIsBoolean ==
    \A i \in Instances : \A e \in Evaluated(i) :
        LET t == TreeOf(e)
        IN t.ok =>
              /\ (t.node.type = "Compare" /\ e.out.ok) =>
                    e.out.val \in {PyBool(TRUE), PyBool(FALSE)}
              /\ \A n \in Nodes(t.node) :
                    (n.type = "Compare" /\ get_value(Self(i), n).ok) =>
                        get_value(Self(i), n).val \in {PyBool(TRUE), PyBool(FALSE)}
\* regex_match('a', 'a') != null was evaluated: its left operand is a match
\* object, its right operand None, and its value is True
C30_Witness ==
    \E i \in Instances : \E e \in Evaluated(i) :
        /\ e.expr = PyStr(<<"r", "e", "g", "e", "x", "_", "m", "a", "t", "c", "h", "(", "'", "a", "'", ",", " ", "'", "a", "'", ")", " ", "!", "=", " ", "n", "u", "l", "l">>)
        /\ CompareOperandsOf(i, TreeOf(e).node)[0].val = PyMatch(0, <<"a">>)
        /\ e.out.ok
        /\ e.out.val = PyBool(TRUE)

====
